---- MODULE Spec2Model ----
(***************************************************************************)
(* Verification model of form-design-lib's data-binding and store          *)
(* synchronisation core:                                                   *)
(*   - utils/nestedValue (getNestedValue / setNestedValue),                *)
(*   - core/binding/strategies/UnifiedBindingStrategy and                  *)
(*     core/BindingResolver,                                               *)
(*   - hooks/useStore (the source fetch orchestrator),                     *)
(*   - core/FieldRegistry,                                                 *)
(*   - components/DynamicForm (initial snapshot, submit, reset, field      *)
(*     visibility, and the asynchronous validation and submit handlers).   *)
(*                                                                         *)
(* Specifications:                                                         *)
(*   Spec         the useStore hook as an event-driven state machine,      *)
(*                with a config of one source;                             *)
(*   SpecChain    the hook with a config of two sources, left to itself;   *)
(*   SpecRetry    the hook with the default maxRetries;                    *)
(*   SpecOrder    the hook with two sources and no automatic retry;        *)
(*   SpecFail     the hook with or without onError, and rejections that    *)
(*                are not Errors;                                          *)
(*   SpecBind     BindingResolver.set / resolve on bounded inputs;         *)
(*   SpecRegistry a FieldRegistry and the caller of its getAll;            *)
(*   SpecForm     a DynamicForm over the hook;                             *)
(*   SpecMerge    the hook with a main object and a list source bound to   *)
(*                a List field;                                            *)
(*   SpecUrl      the hook with a source whose endpoint has placeholders;  *)
(*   SpecVisible  DynamicForm's isFieldVisible on bounded inputs;          *)
(*   SpecResolver a BindingResolver with registered strategies;            *)
(*   SpecLatest   the hook with one parameterised source, every call       *)
(*                settling and every timeout firing;                       *)
(*   SpecSubmit   a DynamicForm with asynchronous validators, concurrent   *)
(*                field changes and submits;                               *)
(*   SpecGate     the same form, one submit at a time.                     *)
(***************************************************************************)
EXTENDS Integers, Sequences, FiniteSets, TLC

(***************************************************************************)
(* JSON-like values.  Every value is a record with a type tag t.           *)
(*   string: s      number: n      object: f (own properties)              *)
(*   array : e (elements, index i at position i+1) and f (own non-index    *)
(*           properties; a JS array is an object and can carry them)       *)
(***************************************************************************)
NoProps == [k \in {} |-> 0]

Undef == [t |-> "undefined"]

Null == [t |-> "null"]

Str(s) == [t |-> "string", s |-> s]

Num(n) == [t |-> "number", n |-> n]

Obj(f) == [t |-> "object", f |-> f]

ArrP(e, f) == [t |-> "array", e |-> e, f |-> f]

Arr(e) == ArrP(e, NoProps)

EmptyObj == Obj(NoProps)

IsArr(v) == v.t = "array"

IsObj(v) == v.t = "object"

IsPrimitive(v) == v.t \in {"string", "number"}

IsNullish(v) == v.t \in {"undefined", "null"}

\* JS truthiness: !v is true for undefined, null, '' and 0.
Truthy(v) ==
  \/ v.t \in {"object", "array"}
  \/ v.t = "string" /\ v.s # ""
  \/ v.t = "number" /\ v.n # 0

(***************************************************************************)
(* Keys.  A key is a string.  The decimal digit strings are the keys for   *)
(* which !isNaN(Number(key)) holds in the model's alphabet.                *)
(***************************************************************************)
MaxIndex == 1

DigitStr == <<"0", "1", "2", "3">>

Indices == 0 .. MaxIndex + 1

IsIndexKey(k) == \E i \in 1 .. Len(DigitStr) : DigitStr[i] = k

KeyIndex(k) == (CHOOSE i \in 1 .. Len(DigitStr) : DigitStr[i] = k) - 1

\* The characters of the strings that occur as values ('US'[0] is 'U').
Chars(s) ==
  CASE s = "" -> <<>>
    [] s = "US" -> <<"U", "S">>
    [] s = "CA" -> <<"C", "A">>
    [] s = "123" -> <<"1", "2", "3">>
    [] OTHER -> <<s>>

\* v[key] for a value v that is neither null nor undefined.
Get(v, key) ==
  CASE v.t = "object" ->
         IF key \in DOMAIN v.f THEN v.f[key] ELSE Undef
    [] v.t = "array" ->
         IF IsIndexKey(key)
         THEN IF KeyIndex(key) < Len(v.e) THEN v.e[KeyIndex(key) + 1] ELSE Undef
         ELSE IF key \in DOMAIN v.f THEN v.f[key] ELSE Undef
    [] v.t = "string" ->
         IF IsIndexKey(key) /\ KeyIndex(key) < Len(Chars(v.s))
         THEN Str(Chars(v.s)[KeyIndex(key) + 1])
         ELSE Undef
    [] OTHER -> Undef

\* f with f[key] = v (property creation or overwrite).
PutProp(f, key, v) ==
  [k \in DOMAIN f \cup {key} |-> IF k = key THEN v ELSE f[k]]

\* target[key] = v on an object or an array (non-index key on an array).
Put(target, key, v) ==
  IF IsObj(target)
  THEN Obj(PutProp(target.f, key, v))
  ELSE ArrP(target.e, PutProp(target.f, key, v))

\* { ...v }: own enumerable properties of v.
Spread(v) ==
  CASE v.t = "object" -> v.f
    [] v.t = "array" ->
         [k \in {DigitStr[i] : i \in 1 .. Len(v.e)} \cup DOMAIN v.f |->
            IF IsIndexKey(k) THEN v.e[KeyIndex(k) + 1] ELSE v.f[k]]
    [] v.t = "string" ->
         [k \in {DigitStr[i] : i \in 1 .. Len(Chars(v.s))} |->
            Str(Chars(v.s)[KeyIndex(k) + 1])]
    [] OTHER -> NoProps

(***************************************************************************)
(* Paths.  A path string is a sequence of symbols: ".", "[", "]", a        *)
(* maximal run of digits, or a maximal run of other characters (a name).   *)
(***************************************************************************)
RECURSIVE Join(_)
Join(syms) == IF syms = <<>> THEN "" ELSE Head(syms) \o Join(Tail(syms))

\* indexOf(sym): position (from 0) of the first occurrence, -1 if none.
IndexOfSym(path, sym) ==
  IF \E i \in 1 .. Len(path) : path[i] = sym
  THEN (CHOOSE i \in 1 .. Len(path) :
          path[i] = sym /\ \A j \in 1 .. i - 1 : path[j] # sym) - 1
  ELSE -1

\* path.replace(/\[(\d+)\]/g, '.$1')
RECURSIVE Normalize(_)
Normalize(path) ==
  IF path = <<>> THEN <<>>
  ELSE IF /\ Len(path) >= 3
          /\ path[1] = "["
          /\ IsIndexKey(path[2])
          /\ path[3] = "]"
       THEN <<".", path[2]>> \o Normalize(SubSeq(path, 4, Len(path)))
       ELSE <<Head(path)>> \o Normalize(Tail(path))

\* str.split('.'): the pieces between the dots, empty pieces included.
RECURSIVE SplitDots(_, _)
SplitDots(path, piece) ==
  IF path = <<>> THEN <<piece>>
  ELSE IF Head(path) = "."
       THEN <<piece>> \o SplitDots(Tail(path), "")
       ELSE SplitDots(Tail(path), piece \o Head(path))

\* normalizedPath.split('.').filter(k => k !== '')
PathKeys(path) == SelectSeq(SplitDots(Normalize(path), ""), LAMBDA k : k # "")

(***************************************************************************)
(* utils/nestedValue.getNestedValue                                        *)
(***************************************************************************)
\* The demo's mock query string: only userId is defined.
MockQueryString(key) == IF key = "userId" THEN Str("123") ELSE Undef

\* keys.reduce((acc, part) => acc == null ? undefined : acc[part], obj)
RECURSIVE ReduceKeys(_, _)
ReduceKeys(acc, keys) ==
  IF keys = <<>> THEN acc
  ELSE ReduceKeys(IF IsNullish(acc) THEN Undef ELSE Get(acc, Head(keys)),
                  Tail(keys))

getNestedValue(obj, path) ==
  IF path = <<>> \/ ~Truthy(obj) THEN Undef
  ELSE IF Len(path) >= 2 /\ path[1] = "queryString" /\ path[2] = "."
       THEN MockQueryString(SplitDots(path, "")[2])
       ELSE ReduceKeys(obj, PathKeys(path))

(***************************************************************************)
(* utils/nestedValue.setNestedValue                                        *)
(*                                                                         *)
(* The module is an ES module, hence strict-mode code: assigning a         *)
(* property on a string or a number raises a TypeError.                    *)
(***************************************************************************)
\* JSON.parse(JSON.stringify(v)): undefined properties are dropped,
\* undefined array elements become null, non-index array properties vanish.
RECURSIVE JsonClone(_)
JsonClone(v) ==
  CASE v.t = "object" ->
         Obj([k \in {x \in DOMAIN v.f : v.f[x].t # "undefined"} |->
                JsonClone(v.f[k])])
    [] v.t = "array" ->
         Arr([i \in 1 .. Len(v.e) |->
                IF v.e[i].t = "undefined" THEN Null ELSE JsonClone(v.e[i])])
    [] OTHER -> v

\* while (current.length <= index) current.push(filler)
ExtendTo(arr, index, filler) ==
  IF Len(arr.e) > index THEN arr
  ELSE ArrP(arr.e \o [j \in 1 .. (index + 1 - Len(arr.e)) |-> filler], arr.f)

\* "Set the final value" (lines 271-288) on the node reached by the walk.
FinalAssign(cur, finalKey, value) ==
  IF IsIndexKey(finalKey)
  THEN IF IsArr(cur)
       THEN LET arr == ExtendTo(cur, KeyIndex(finalKey), Undef)
            IN  [v |-> ArrP([arr.e EXCEPT ![KeyIndex(finalKey) + 1] = value],
                            arr.f),
                 threw |-> FALSE]
       ELSE [v |-> cur, threw |-> FALSE]
  ELSE IF IsPrimitive(cur)
       THEN [v |-> cur, threw |-> TRUE]
       ELSE [v |-> Put(cur, finalKey, value), threw |-> FALSE]

\* The loop over keys[0 .. length-2] followed by the final assignment, from
\* loop position i on (i counts from 1) with `current` = cur.  v is cur as
\* the walk leaves it, threw tells whether a TypeError was raised.
\* extend is FALSE in the branch for paths that start with '['.
RECURSIVE Walk(_, _, _, _, _)
Walk(cur, keys, i, value, extend) ==
  IF i >= Len(keys)
  THEN FinalAssign(cur, IF keys = <<>> THEN "undefined" ELSE keys[Len(keys)],
                   value)
  ELSE LET key == keys[i]
           isNextArrayIndex == IsIndexKey(keys[i + 1])
           fresh == IF isNextArrayIndex THEN Arr(<<>>) ELSE EmptyObj
       IN
       IF IsIndexKey(key)
       THEN LET index == KeyIndex(key) IN
            IF ~IsArr(cur) \/ (~extend /\ Len(cur.e) <= index)
            THEN [v |-> cur, threw |-> FALSE]
            ELSE LET arr == ExtendTo(cur, index, fresh)
                     elem == arr.e[index + 1]
                     slot == IF isNextArrayIndex /\ ~IsArr(elem) THEN Arr(<<>>)
                             ELSE IF ~isNextArrayIndex /\ ~Truthy(elem)
                                  THEN EmptyObj
                                  ELSE elem
                     sub == Walk(slot, keys, i + 1, value, extend)
                 IN  [v |-> ArrP([arr.e EXCEPT ![index + 1] = sub.v], arr.f),
                      threw |-> sub.threw]
       ELSE LET child == Get(cur, key) IN
            IF ~Truthy(child)
            THEN IF IsPrimitive(cur)
                 THEN [v |-> cur, threw |-> TRUE]
                 ELSE LET sub == Walk(fresh, keys, i + 1, value, extend)
                      IN  [v |-> Put(cur, key, sub.v), threw |-> sub.threw]
            ELSE LET sub == Walk(child, keys, i + 1, value, extend)
                 IN  IF IsPrimitive(cur)
                     THEN [v |-> cur, threw |-> sub.threw]
                     ELSE [v |-> Put(cur, key, sub.v), threw |-> sub.threw]

\* The argument obj as the call leaves it.  JSON cloning shares nothing with
\* obj.  [...obj] copies only the top-level array: its elements are the very
\* objects of obj, so when the walk descends into an existing element
\* (one it did not replace by a fresh [] or {}) every later assignment lands
\* in obj's element too.
ArgAfter(obj, keys, walked) ==
  IF /\ IsArr(obj)
     /\ Len(keys) >= 2
     /\ IsIndexKey(keys[1])
     /\ KeyIndex(keys[1]) < Len(obj.e)
     /\ LET elem == obj.e[KeyIndex(keys[1]) + 1]
        IN  IF IsIndexKey(keys[2]) THEN IsArr(elem) ELSE Truthy(elem)
  THEN ArrP([obj.e EXCEPT ![KeyIndex(keys[1]) + 1] =
                            walked.e[KeyIndex(keys[1]) + 1]], obj.f)
  ELSE obj

\* result: the returned deepClone; threw: a TypeError escaped instead;
\* arg: obj after the call.
setNestedValue(obj, path, value) ==
  LET deepClone == IF IsArr(obj) THEN Arr(obj.e) ELSE JsonClone(obj)
      keys == PathKeys(path)
      w == Walk(deepClone, keys, 1, value, ~(path # <<>> /\ path[1] = "["))
  IN  [result |-> w.v, threw |-> w.threw, arg |-> ArgAfter(obj, keys, w.v)]

(***************************************************************************)
(* core/binding/strategies/UnifiedBindingStrategy                          *)
(***************************************************************************)
\* [...path.matchAll(/\[(\d+)\]/g)].map(m => parseInt(m[1], 10))
RECURSIVE ArrayIndices(_)
ArrayIndices(path) ==
  IF path = <<>> THEN <<>>
  ELSE IF /\ Len(path) >= 3
          /\ path[1] = "["
          /\ IsIndexKey(path[2])
          /\ path[3] = "]"
       THEN <<KeyIndex(path[2])>> \o ArrayIndices(SubSeq(path, 4, Len(path)))
       ELSE ArrayIndices(Tail(path))

\* A parse that cuts at the first bracket whenever there is one.
parseAtBracket(path) ==
  LET firstBracketIndex == IndexOfSym(path, "[")
      firstDotIndex == IndexOfSym(path, ".")
      arrayIndices == ArrayIndices(path)
  IN  [rootSource |->
         Join(SubSeq(path, 1, IF firstBracketIndex # -1 THEN firstBracketIndex
                              ELSE IF firstDotIndex # -1 THEN firstDotIndex
                              ELSE Len(path))),
       relativePath |->
         IF firstBracketIndex # -1
         THEN SubSeq(path, firstBracketIndex + 1, Len(path))
         ELSE IF firstDotIndex # -1
              THEN SubSeq(path, firstDotIndex + 2, Len(path))
              ELSE <<>>,
       isArrayPath |-> Len(arrayIndices) > 0,
       arrayIndices |-> arrayIndices]

parse(path) ==
  LET firstBracketIndex == IndexOfSym(path, "[")
      firstDotIndex == IndexOfSym(path, ".")
      arrayIndices == ArrayIndices(path)
      atDot == [rootSource |-> Join(SubSeq(path, 1, firstDotIndex)),
                relativePath |-> SubSeq(path, firstDotIndex + 2, Len(path))]
      atBracket == [rootSource |-> Join(SubSeq(path, 1, firstBracketIndex)),
                    relativePath |-> SubSeq(path, firstBracketIndex + 1,
                                            Len(path))]
      whole == [rootSource |-> Join(path), relativePath |-> <<>>]
      split == IF firstBracketIndex # -1
               THEN IF firstDotIndex # -1 /\ firstDotIndex < firstBracketIndex
                    THEN atDot
                    ELSE atBracket
               ELSE IF firstDotIndex = -1 THEN whole ELSE atDot
  IN  [rootSource |-> split.rootSource,
       relativePath |-> split.relativePath,
       isArrayPath |-> Len(arrayIndices) > 0,
       arrayIndices |-> arrayIndices]

strategyResolve(path, store) ==
  LET parsed == parse(path)
      rootData == Get(store, parsed.rootSource)
  IN  IF parsed.relativePath = <<>> THEN rootData
      ELSE IF rootData = Undef THEN Undef
           ELSE getNestedValue(rootData, parsed.relativePath)

\* store: the returned store; threw: a TypeError escaped instead;
\* same: the returned store is the argument object itself;
\* arg: the argument store after the call.
strategySet(path, value, store) ==
  LET parsed == parse(path) IN
  IF parsed.relativePath = <<>>
  THEN [store |-> Obj(PutProp(Spread(store), parsed.rootSource, value)),
        threw |-> FALSE, same |-> FALSE, arg |-> store]
  ELSE LET found == Get(store, parsed.rootSource)
           currentRootData == IF Truthy(found) THEN found ELSE EmptyObj
           r == setNestedValue(currentRootData, parsed.relativePath, value)
       IN  [store |-> Obj(PutProp(Spread(store), parsed.rootSource, r.result)),
            threw |-> r.threw,
            same |-> FALSE,
            arg |-> IF Truthy(found)
                    THEN Obj(PutProp(store.f, parsed.rootSource, r.arg))
                    ELSE store]

(***************************************************************************)
(* core/BindingResolver (one registered strategy, the unified one)         *)
(***************************************************************************)
resolve(path, store) ==
  IF path = <<>> \/ ~Truthy(store) THEN Undef ELSE strategyResolve(path, store)

set(path, value, store) ==
  IF path = <<>> \/ ~Truthy(store)
  THEN [store |-> store, threw |-> FALSE, same |-> TRUE, arg |-> store]
  ELSE strategySet(path, value, store)

(***************************************************************************)
(* Bounded inputs of SpecBind.                                             *)
(***************************************************************************)
MaxTokens == 3

PropNames == {"a", "queryString", "userId"}

Tokens ==
  {<<".", n>> : n \in PropNames} \cup
  {<<"[", DigitStr[i + 1], "]">> : i \in 0 .. MaxIndex}

TokenSeqs == UNION {[1 .. m -> Tokens] : m \in 0 .. MaxTokens}

RECURSIVE Flatten(_)
Flatten(ts) == IF ts = <<>> THEN <<>> ELSE Head(ts) \o Flatten(Tail(ts))

\* The paths r, r.a, r[0], r.a[1].a, r[1].a, r.queryString.userId, ...
\* and the empty path.
BindPaths == {<<"r">> \o Flatten(ts) : ts \in TokenSeqs} \cup {<<>>}

BindValues == {Str("v"), Num(7)}

Level0 == {Null, Num(5), Str("s"), EmptyObj, Arr(<<>>)}

Level1 ==
  Level0 \cup {Obj([k \in {"a"} |-> x]) : x \in Level0}
         \cup {Arr(<<x>>) : x \in Level0}
         \cup {Arr(<<x, y>>) : x, y \in {EmptyObj, Num(5)}}

Level2 ==
  Level1 \cup {Obj([k \in {"a"} |-> x]) : x \in Level1}
         \cup {Arr(<<x>>) : x \in Level1}
         \cup {Arr(<<EmptyObj, x>>) : x \in Level1}

OtherData == Arr(<<Obj([k \in {"a"} |-> Num(5)])>>)

\* {}, {o: ...} and {r: d, o: ...} for every d of Level2.
BindStores ==
  {EmptyObj, Obj([k \in {"o"} |-> OtherData])} \cup
  {Obj([k \in {"r", "o"} |-> IF k = "r" THEN d ELSE OtherData]) : d \in Level2}

NoOutcome == [store |-> Undef, threw |-> FALSE, same |-> FALSE, arg |-> Undef]

VARIABLES bPhase, bPath, bValue, bStore, bOut, bRead

bvars == <<bPhase, bPath, bValue, bStore, bOut, bRead>>

BindIdle ==
  /\ bPhase = "idle"
  /\ bPath = <<>>
  /\ bValue = Undef
  /\ bStore = EmptyObj
  /\ bOut = NoOutcome
  /\ bRead = Undef

(***************************************************************************)
(* core/FieldRegistry.  A Map is the sequence of its entries in insertion   *)
(* order.                                                                  *)
(***************************************************************************)
FieldTypes == {"Text", "Number"}

Components == {"MockTextField", "MockNumberField"}

\* map.set(key, value): an existing key keeps its place.
MapSet(m, key, value) ==
  IF \E i \in DOMAIN m : m[i].key = key
  THEN [i \in DOMAIN m |->
          IF m[i].key = key THEN [key |-> key, value |-> value] ELSE m[i]]
  ELSE Append(m, [key |-> key, value |-> value])

\* map.delete(key)
MapDelete(m, key) == SelectSeq(m, LAMBDA e : e.key # key)

\* FieldRegistry.has, get, size and getRegisteredTypes, with m = this.fields.
has(m, fieldType) == \E i \in DOMAIN m : m[i].key = fieldType

get(m, fieldType) ==
  IF has(m, fieldType)
  THEN m[CHOOSE i \in DOMAIN m : m[i].key = fieldType].value
  ELSE "undefined"

size(m) == Len(m)

getRegisteredTypes(m) == [i \in DOMAIN m |-> m[i].key]

\* A register that replaces without asking.
registerAlways(m, fieldType, component, override) ==
  [fields |-> MapSet(m, fieldType, component), threw |-> FALSE]

\* FieldRegistry.register: this.fields after the call, and whether it threw.
register(m, fieldType, component, override) ==
  IF has(m, fieldType) /\ ~override
  THEN [fields |-> m, threw |-> TRUE]
  ELSE [fields |-> MapSet(m, fieldType, component), threw |-> FALSE]

\* FieldRegistry.registerMany: entries.forEach(register); the first throw
\* ends the loop and leaves what the earlier entries have registered.
RECURSIVE registerMany(_, _, _)
registerMany(m, entries, override) ==
  IF entries = <<>> THEN [fields |-> m, threw |-> FALSE]
  ELSE LET r == register(m, Head(entries).key, Head(entries).value, override)
       IN  IF r.threw THEN r
           ELSE registerMany(r.fields, Tail(entries), override)

\* A getAll that hands out this.fields itself.
getAllSameMap(m) == [map |-> m, alias |-> TRUE, changed |-> FALSE]

\* FieldRegistry.getAll: new Map(this.fields), an object of its own.
getAll(m) == [map |-> m, alias |-> FALSE, changed |-> FALSE]

NoMap == [map |-> <<>>, alias |-> FALSE, changed |-> FALSE]

VARIABLES
  fields,         \* this.fields of the registry
  threw,          \* the latest call on the registry threw
  returned        \* the Map the latest getAll returned; alias: it is
                  \* this.fields itself; changed: its caller has changed it

rvars == <<fields, threw, returned>>

RegistryIdle ==
  /\ fields = <<>>
  /\ threw = FALSE
  /\ returned = NoMap

(***************************************************************************)
(* hooks/useStore: configuration                                           *)
(***************************************************************************)
MaxRetries == 1

MaxTimers == 1

MaxCycles == 2

\* The defaults of the options maxRetries and retryDelay (milliseconds).
DefaultMaxRetries == 3

DefaultRetryDelay == 1000

CountryList ==
  [sourceName |-> "countryList", sourceType |-> "API",
   endpoint |-> <<"/api/countries">>,
   hasParameters |-> FALSE, parameters |-> <<>>]

StateList ==
  [sourceName |-> "stateList", sourceType |-> "API",
   endpoint |-> <<"/api/states?country=", "{countryCode}">>,
   hasParameters |-> TRUE,
   parameters |-> <<[name |-> "countryCode",
                     path |-> <<"object", ".", "country">>]>>]

\* The configurations: a lookup list alone, a source that depends on
\* object.country alone, and (for SpecChain) the two together.  No fields.
Configs ==
  {[sources |-> <<CountryList>>, fields |-> <<>>],
   [sources |-> <<StateList>>, fields |-> <<>>]}

ChainConfig == [sources |-> <<CountryList, StateList>>, fields |-> <<>>]

\* The main object of a form, loaded without parameters.
ObjectSource ==
  [sourceName |-> "object", sourceType |-> "API",
   endpoint |-> <<"/api/user">>,
   hasParameters |-> FALSE, parameters |-> <<>>]

\* A text field of the form bound to object.country, validated on submit.
CountryField ==
  [fieldType |-> "Text", binding |-> <<"object", ".", "country">>,
   listSource |-> ""]

\* The configuration of the form: the main object, a list that depends on
\* it, and one field.
FormConfig ==
  [sources |-> <<ObjectSource, StateList>>, fields |-> <<CountryField>>]

AllSourceNames == {"countryList", "stateList"}

\* The keys of the hook's per-source records.
SourceKeys == AllSourceNames \cup {"object", "experienceList"}

\* What the provider may answer.
Responses == {Arr(<<Str("x")>>)}

\* The field edits of the form: the parameter of stateList and a field no
\* source depends on.
EditPaths == {<<"object", ".", "country">>, <<"object", ".", "field">>}

EditValues(path) ==
  IF path = <<"object", ".", "country">>
  THEN {Str("US"), Str("CA"), Str("")}
  ELSE {Str("x")}

NoSig == [none |-> TRUE]

NoError == [none |-> TRUE]

Idle == [pos |-> 0, url |-> "", sig |-> NoSig, calls |-> 0]

VARIABLES
  config,         \* the config prop
  options,        \* the options maxRetries, retryDelay and onError (whether
                  \* a callback is given)
  mounted,        \* the effects of the first render have run
  store,          \* store state; storeRef.current follows it
  loadingStates,  \* loadingStates state
  errors,         \* errors state
  prevParams,     \* prevParamsRef.current
  retryCounts,    \* retryCountsRef.current (an absent entry reads as 0)
  inFlight,       \* inFlightRef.current
  cycles,         \* the runs of checkAndFetchSources suspended at
                  \* `await api.call(url)`: source position, url, signature,
                  \* and the number of calls the run has issued (fetchOrder)
  retryTimers,    \* pending retry timeouts per source
  debounce,       \* the timeout of the latest run of Effect 3 is pending
  strayTimers,    \* pending timeouts of earlier runs of Effect 3
  retryDelays,    \* the delay given to the last retry timeout per source
  onErrorCalls,   \* the arguments of the onError invocations made by the
                  \* latest event, in order
  streak,         \* history: automatic retries scheduled per source since
                  \* its last success or reset of the counter
  lastOk,         \* history: signature of the last call that succeeded
  lastSettled,    \* history: signature of the last call that settled if it
                  \* succeeded, none if it failed
  okSigs          \* history: signatures of all the calls that succeeded

fvars ==
  <<config, options, mounted, store, loadingStates, errors, prevParams,
    retryCounts, inFlight, cycles, retryTimers, debounce, strayTimers,
    retryDelays, onErrorCalls, streak, lastOk, lastSettled, okSigs>>

(***************************************************************************)
(* components/DynamicForm: the state the form keeps beside the hook's      *)
(***************************************************************************)
VARIABLES
  dynamicForm,      \* the hook is rendered by a DynamicForm
  initialStoreRef,  \* initialStoreRef.current
  isInitializedRef, \* isInitializedRef.current
  formErrors,       \* formErrors state: the bindings that carry a message
  submitStatus,     \* submitStatus state
  successTimers     \* pending setTimeout(() => setSubmitStatus(null))

dvars ==
  <<dynamicForm, initialStoreRef, isInitializedRef, formErrors, submitStatus,
    successTimers>>

\* The state of lines 48-58; alone says whether the hook is used by itself.
FormState(alone) ==
  /\ dynamicForm = ~alone
  /\ initialStoreRef = EmptyObj
  /\ isInitializedRef = FALSE
  /\ formErrors = {}
  /\ submitStatus = "null"
  /\ successTimers = 0

FormIdle == FormState(TRUE)

(***************************************************************************)
(* BindingResolver's strategies, and the field and store that              *)
(* isFieldVisible is applied to                                            *)
(***************************************************************************)
VARIABLES
  strategies,     \* this.strategies of the BindingResolver
  found,          \* the latest findStrategy call: its path and its result
  vField,         \* the field given to isFieldVisible
  vStore,         \* the store of the render
  vVisible        \* what isFieldVisible returned, "none" before the call

pvars == <<strategies, found, vField, vStore, vVisible>>

NoField == [none |-> TRUE]

UnifiedBindingStrategy == [id |-> 0, kind |-> "Unified"]

NotFound == [none |-> TRUE]

\* new BindingResolver() (lines 21-25), and no field under evaluation.
ResolverIdle ==
  /\ strategies = <<UnifiedBindingStrategy>>
  /\ found = NotFound

PureIdle ==
  /\ ResolverIdle
  /\ vField = NoField
  /\ vStore = EmptyObj
  /\ vVisible = "none"

(***************************************************************************)
(* components/DynamicForm: the handlers that are suspended at an await     *)
(***************************************************************************)
VARIABLES
  isSubmitting,       \* isSubmitting state
  validatingFields,   \* validatingFields state
  validations,        \* the handleFieldChange calls suspended at
                      \* `await validateField(...)`: binding and value
  submits,            \* the handleSubmit calls suspended at
                      \* `await validate()` or at `await onSubmit(...)`,
                      \* with the store and formErrors of their render
  onSubmitCalls,      \* the arguments of the onSubmit invocations made by
                      \* the latest event
  onValidationErrorCalls  \* the same for onValidationError

avars ==
  <<isSubmitting, validatingFields, validations, submits, onSubmitCalls,
    onValidationErrorCalls>>

\* Lines 50-51, and no handler suspended.
AsyncIdle ==
  /\ isSubmitting = FALSE
  /\ validatingFields = {}
  /\ validations = <<>>
  /\ submits = <<>>
  /\ onSubmitCalls = <<>>
  /\ onValidationErrorCalls = <<>>

vars == <<fvars, bvars, rvars, dvars, pvars, avars>>

\* Object.keys(v).length for an object or an array.
KeysLength(v) ==
  CASE v.t = "object" -> Cardinality(DOMAIN v.f)
    [] v.t = "array" -> Len(v.e) + Cardinality(DOMAIN v.f)
    [] v.t = "string" -> Len(Chars(v.s))
    [] OTHER -> 0

\* The effect "save initial store state" of DynamicForm (lines 76-82), run
\* after a render with the store st.
SaveInitial(st) ==
  IF /\ dynamicForm
     /\ ~isInitializedRef
     /\ Truthy(Get(st, "object"))
     /\ KeysLength(Get(st, "object")) > 0
  THEN /\ initialStoreRef' = JsonClone(st)
       /\ isInitializedRef' = TRUE
  ELSE UNCHANGED <<initialStoreRef, isInitializedRef>>

SourceIndex(name) ==
  IF \E i \in DOMAIN config.sources : config.sources[i].sourceName = name
  THEN CHOOSE i \in DOMAIN config.sources : config.sources[i].sourceName = name
  ELSE 0

(***************************************************************************)
(* checkAndFetchSources: the per-source decision (lines 100-157)           *)
(***************************************************************************)
\* String(value) as url.replace inserts it.
ToStr(v) ==
  CASE v.t = "string" -> v.s
    [] v.t = "number" -> IF v.n \in 0 .. 3 THEN DigitStr[v.n + 1] ELSE "N"
    [] v.t = "array" -> "[array]"
    [] OTHER -> "[object Object]"

\* url.replace(sym, str): the first occurrence only.
ReplaceFirst(url, sym, str) ==
  IF IndexOfSym(url, sym) = -1 THEN url
  ELSE [url EXCEPT ![IndexOfSym(url, sym) + 1] = str]

\* The check without its third disjunct: '' passes as a value.
ParamMissingButEmpty(value) == value = Undef \/ value = Null

\* value === undefined || value === null || value === ''
ParamMissing(value) == value = Undef \/ value = Null \/ value = Str("")

ResolvedParams(source, st) ==
  [i \in DOMAIN source.parameters |->
     getNestedValue(st, source.parameters[i].path)]

ShouldFetch(values) == \A i \in DOMAIN values : ~ParamMissing(values[i])

\* The forEach over Object.entries(source.parameters), from entry i on.
RECURSIVE Substitute(_, _, _, _)
Substitute(url, source, values, i) ==
  IF i > Len(source.parameters) THEN url
  ELSE LET value == values[i]
           byName == ReplaceFirst(url,
                                  "{" \o source.parameters[i].name \o "}",
                                  ToStr(value))
           byId == ReplaceFirst(byName, "{id}", ToStr(value))
       IN  IF ParamMissing(value)
           THEN Substitute(url, source, values, i + 1)
           ELSE Substitute(byId, source, values, i + 1)

ResolvedUrl(source, values) ==
  Join(Substitute(source.endpoint, source, values, 1))

\* JSON.stringify({ url, ...resolvedParams }).  The JSON text is kept as the
\* pair it encodes; JSON.stringify maps different pairs of a url and string
\* parameters to different texts.
paramsSignature(source, url, values) ==
  [url |-> url,
   params |-> [i \in DOMAIN source.parameters |->
                 <<source.parameters[i].name, values[i]>>]]

\* What lines 107-136 compute for one source from storeRef.current = st.
Resolved(source, st) ==
  LET values == ResolvedParams(source, st)
      url == ResolvedUrl(source, values)
  IN  [shouldFetch |-> ShouldFetch(values),
       url |-> url,
       sig |-> paramsSignature(source, url, values)]

\* The same for every source of the config, in the order of the loop.
RECURSIVE ResolvedFrom(_, _)
ResolvedFrom(j, st) ==
  IF j > Len(config.sources) THEN <<>>
  ELSE <<Resolved(config.sources[j], st)>> \o ResolvedFrom(j + 1, st)

\* The source passes the checks of lines 101-157 and is fetched; r is what
\* was resolved for it.
Fetchable(source, r, pp, inf) ==
  /\ source.sourceType = "API"
  /\ r.shouldFetch
  /\ pp[source.sourceName] # r.sig
  /\ source.sourceName \notin inf

\* A loop that starts over from the first source after every call.
NextFetchFromFirst(from, rs, pp, inf) ==
  IF \E j \in DOMAIN config.sources :
       Fetchable(config.sources[j], rs[j], pp, inf)
  THEN CHOOSE j \in DOMAIN config.sources :
         /\ Fetchable(config.sources[j], rs[j], pp, inf)
         /\ \A k \in 1 .. j - 1 : ~Fetchable(config.sources[k], rs[k], pp, inf)
  ELSE 0

\* The first source from position `from` on that is fetched; 0 if none.
RECURSIVE NextFetch(_, _, _, _)
NextFetch(from, rs, pp, inf) ==
  IF from > Len(config.sources) THEN 0
  ELSE IF Fetchable(config.sources[from], rs[from], pp, inf) THEN from
  ELSE NextFetch(from + 1, rs, pp, inf)

\* A loop that issues its calls without touching the loading flags.
RunCycleNoLoading(c, from, rs, pp, inf, ld, er) ==
  LET j == NextFetch(from, rs, pp, inf) IN
  IF j = 0
  THEN /\ cycles' = [cycles EXCEPT ![c] = Idle]
       /\ inFlight' = inf
       /\ loadingStates' = ld
       /\ errors' = er
  ELSE LET name == config.sources[j].sourceName
       IN  /\ cycles' = [cycles EXCEPT ![c] =
                           [pos |-> j, url |-> rs[j].url, sig |-> rs[j].sig,
                            calls |-> cycles[c].calls + 1]]
           /\ inFlight' = inf \cup {name}
           /\ loadingStates' = ld
           /\ errors' = [er EXCEPT ![name] = NoError]

\* The for loop from source position `from` on, run by cycle c, with rs
\* resolved from storeRef.current, prevParamsRef = pp, inFlightRef = inf, up
\* to its next `await api.call(url)` (lines 159-187) or to its end.
RunCycle(c, from, rs, pp, inf, ld, er) ==
  LET j == NextFetch(from, rs, pp, inf) IN
  IF j = 0
  THEN /\ cycles' = [cycles EXCEPT ![c] = Idle]
       /\ inFlight' = inf
       /\ loadingStates' = ld
       /\ errors' = er
  ELSE LET name == config.sources[j].sourceName
       IN  /\ cycles' = [cycles EXCEPT ![c] =
                           [pos |-> j, url |-> rs[j].url, sig |-> rs[j].sig,
                            calls |-> cycles[c].calls + 1]]
           /\ inFlight' = inf \cup {name}
           /\ loadingStates' = [ld EXCEPT ![name] = TRUE]
           /\ errors' = [er EXCEPT ![name] = NoError]

FreeSlot(c) ==
  /\ cycles[c] = Idle
  /\ \A d \in 1 .. c - 1 : cycles[d] # Idle

(***************************************************************************)
(* The setStore updater of a successful fetch (lines 206-275)              *)
(***************************************************************************)
mainObjectSourceName ==
  IF \E i \in DOMAIN config.sources :
       \/ config.sources[i].sourceName = "object"
       \/ /\ config.sources[i].sourceType = "API"
          /\ ~config.sources[i].hasParameters
  THEN config.sources[
         CHOOSE i \in DOMAIN config.sources :
           /\ \/ config.sources[i].sourceName = "object"
              \/ /\ config.sources[i].sourceType = "API"
                 /\ ~config.sources[i].hasParameters
           /\ \A k \in 1 .. i - 1 :
                ~(\/ config.sources[k].sourceName = "object"
                  \/ /\ config.sources[k].sourceType = "API"
                     /\ ~config.sources[k].hasParameters)].sourceName
  ELSE "object"

DeleteProp(f, key) == [k \in DOMAIN f \ {key} |-> f[k]]

\* config.fields.forEach of lines 219-238, from field i on; a field is
\* [fieldType, binding, listSource] with listSource "" when absent.
RECURSIVE MapListProperties(_, _, _)
MapListProperties(mappedData, data, i) ==
  IF i > Len(config.fields) THEN mappedData
  ELSE LET field == config.fields[i]
           relativePath == SubSeq(field.binding, 3, Len(field.binding))
           listed == Get(data, field.listSource)
       IN  IF /\ field.fieldType = "List"
              /\ Len(field.binding) >= 2
              /\ field.binding[1] = mainObjectSourceName
              /\ field.binding[2] = "."
              /\ field.listSource # ""
              /\ IsArr(listed)
              /\ IndexOfSym(relativePath, "[") = -1
           THEN MapListProperties(
                  DeleteProp(PutProp(mappedData, Join(relativePath), listed),
                             field.listSource),
                  data, i + 1)
           ELSE MapListProperties(mappedData, data, i + 1)

\* Lines 250-256: the response itself, or the array found under one of its
\* keys, or [].
ArrayData(data) ==
  IF IsObj(data)
  THEN IF \E k \in DOMAIN data.f : IsArr(data.f[k])
       THEN data.f[CHOOSE k \in DOMAIN data.f : IsArr(data.f[k])]
       ELSE Arr(<<>>)
  ELSE data

\* A merge that writes to no binding path.
SyncListFieldsNone(newStore, name, data, i) == newStore

\* config.fields.forEach of lines 248-272, from field i on.
RECURSIVE SyncListFields(_, _, _, _)
SyncListFields(newStore, name, data, i) ==
  IF i > Len(config.fields) THEN newStore
  ELSE LET field == config.fields[i]
           arrayData == ArrayData(data)
           written == set(field.binding, arrayData, newStore)
       IN  IF /\ field.fieldType = "List"
              /\ field.listSource = name
              /\ field.binding # <<>>
              /\ IsArr(arrayData)
              /\ Len(arrayData.e) > 0
              /\ \/ parse(field.binding).rootSource \in DOMAIN newStore.f
                 \/ parse(field.binding).rootSource = mainObjectSourceName
              /\ ~written.threw
           THEN SyncListFields(written.store, name, data, i + 1)
           ELSE SyncListFields(newStore, name, data, i + 1)

MergeFetched(prev, source, data) ==
  IF source.sourceName = mainObjectSourceName
  THEN LET mappedData == MapListProperties(Spread(data), data, 1)
           old == Spread(Get(prev, source.sourceName))
           merged == [k \in DOMAIN old \cup DOMAIN mappedData |->
                        IF k \in DOMAIN mappedData THEN mappedData[k]
                        ELSE old[k]]
       IN  Obj(PutProp(prev.f, source.sourceName, Obj(merged)))
  ELSE SyncListFields(Obj(PutProp(prev.f, source.sourceName, data)),
                      source.sourceName, data, 1)

(***************************************************************************)
(* Effect 1 and Effect 3                                                   *)
(***************************************************************************)
\* An Effect 1 that spreads the placeholders over the previous store.
SeedStoreOver(prev) ==
  LET names == {config.sources[i].sourceName : i \in DOMAIN config.sources}
  IN  Obj([k \in names \cup DOMAIN prev.f |->
             IF k \in names
             THEN IF k = "object" THEN EmptyObj ELSE Arr(<<>>)
             ELSE prev.f[k]])

\* Effect 1 (lines 80-91): placeholders, never over an existing key.
SeedStore(prev) ==
  LET names == {config.sources[i].sourceName : i \in DOMAIN config.sources}
      needsInit == DOMAIN prev.f = {} \/ \E n \in names : n \notin DOMAIN prev.f
  IN  IF needsInit
      THEN Obj([k \in names \cup DOMAIN prev.f |->
                  IF k \in DOMAIN prev.f THEN prev.f[k]
                  ELSE IF k = "object" THEN EmptyObj ELSE Arr(<<>>)])
      ELSE prev

\* Effect 3 without the signature comparison: every store change schedules
\* a re-run when the config has a dependent source.
needsRefetchAlways(st, pp, inf) ==
  \E i \in DOMAIN config.sources :
    config.sources[i].sourceType = "API" /\ config.sources[i].hasParameters

\* Effect 3 (lines 366-412): some dependent source has all its parameters
\* resolved, a signature other than the cached one, and is not in flight.
needsRefetch(st, pp, inf) ==
  \E i \in DOMAIN config.sources :
    LET source == config.sources[i]
        r == Resolved(source, st)
    IN  /\ source.sourceType = "API"
        /\ source.hasParameters
        /\ r.shouldFetch
        /\ pp[source.sourceName] # r.sig
        /\ source.sourceName \notin inf

\* A cleanup that clears nothing: the timeouts stay pending.
clearTimeoutNot(pending) == pending

\* return () => clearTimeout(timeoutId) (line 419): what is left pending of
\* the timeouts of the run being cleaned up.
clearTimeout(pending) == 0

\* Effect 3 runs again (its dependencies store or checkAndFetchSources have
\* changed): the cleanup of the previous run, then lines 366-417 against
\* storeRef.current = st.
Effect3(st, pp, inf) ==
  /\ strayTimers' = strayTimers + clearTimeout(IF debounce THEN 1 ELSE 0)
  /\ debounce' = needsRefetch(st, pp, inf)

(***************************************************************************)
(* Events of the hook.  Every event is one run-to-completion step of the   *)
(* event loop together with the React render and effects it causes.  The   *)
(* timers carry no durations: a pending timer may fire at any moment.      *)
(***************************************************************************)
\* checkAndFetchSources() called afresh.
StartCycle(st, pp, inf, ld, er) ==
  LET rs == ResolvedFrom(1, st) IN
  IF NextFetch(1, rs, pp, inf) = 0
  THEN /\ inFlight' = inf
       /\ loadingStates' = ld
       /\ errors' = er
       /\ UNCHANGED cycles
  ELSE \E c \in 1 .. MaxCycles :
         /\ FreeSlot(c)
         /\ RunCycle(c, 1, rs, pp, inf, ld, er)

\* First render: Effect 2 starts a cycle that reads the still empty
\* storeRef; Effect 1's placeholders are committed by the next render, after
\* which Effect 3 looks at the seeded store.
Mount ==
  /\ ~mounted
  /\ mounted' = TRUE
  /\ StartCycle(store, prevParams, inFlight, loadingStates, errors)
  /\ store' = SeedStore(store)
  /\ Effect3(store', prevParams, inFlight')
  /\ onErrorCalls' = <<>>
  /\ UNCHANGED <<config, options, prevParams, retryCounts, retryTimers,
                 retryDelays, streak, lastOk, lastSettled, okSigs, bvars,
                 rvars, pvars, avars>>
  /\ SaveInitial(store')
  /\ UNCHANGED <<dynamicForm, formErrors, submitStatus, successTimers>>

\* The parent passes a new config object (same content): Effects 1, 2 and 3
\* run again.
ConfigChange ==
  /\ mounted
  /\ StartCycle(store, prevParams, inFlight, loadingStates, errors)
  /\ store' = SeedStore(store)
  /\ Effect3(store', prevParams, inFlight')
  /\ onErrorCalls' = <<>>
  /\ UNCHANGED <<config, options, mounted, prevParams, retryCounts,
                 retryTimers, retryDelays, streak, lastOk, lastSettled,
                 okSigs, bvars, rvars, pvars, avars>>
  /\ SaveInitial(store')
  /\ UNCHANGED <<dynamicForm, formErrors, submitStatus, successTimers>>

\* A field edit: setStore(prev => bindingResolver.set(path, value, prev)),
\* then Effect 3 (its cleanup cancels a pending timeout).
SetField(path, value) ==
  /\ mounted
  /\ LET written == set(path, value, store)
     IN  /\ ~written.threw
         /\ store' = written.store
  /\ Effect3(store', prevParams, inFlight)
  /\ onErrorCalls' = <<>>
  /\ UNCHANGED <<config, options, mounted, loadingStates, errors, prevParams,
                 retryCounts, inFlight, cycles, retryTimers, retryDelays,
                 streak, lastOk, lastSettled, okSigs, bvars, rvars, pvars,
                 avars>>
  /\ SaveInitial(store')
  /\ formErrors' = IF \E i \in DOMAIN config.fields :
                        config.fields[i].binding = path
                   THEN formErrors \ {path}
                   ELSE formErrors
  /\ UNCHANGED <<dynamicForm, submitStatus, successTimers>>

\* Effect 3's timeout (lines 415-417).
DebounceFire ==
  /\ \E latest \in BOOLEAN :
       /\ IF latest THEN debounce ELSE strayTimers > 0
       /\ debounce' = (debounce /\ ~latest)
       /\ strayTimers' = IF latest THEN strayTimers ELSE strayTimers - 1
  /\ StartCycle(store, prevParams, inFlight, loadingStates, errors)
  /\ onErrorCalls' = <<>>
  /\ UNCHANGED <<config, options, mounted, store, prevParams, retryCounts,
                 retryTimers, retryDelays, streak, lastOk, lastSettled,
                 okSigs, bvars, rvars,
                 dvars, pvars, avars>>

\* The retry timeout of lines 322-329.
RetryTimerFire(name) ==
  /\ retryTimers[name] > 0
  /\ retryTimers' = [retryTimers EXCEPT ![name] = @ - 1]
  /\ prevParams' = [prevParams EXCEPT ![name] = NoSig]
  /\ StartCycle(store, prevParams', inFlight \ {name}, loadingStates, errors)
  /\ onErrorCalls' = <<>>
  /\ UNCHANGED <<config, options, mounted, store, retryCounts, debounce,
                 strayTimers, retryDelays, streak, lastOk, lastSettled,
                 okSigs, bvars, rvars,
                 dvars, pvars, avars>>

\* retrySource(sourceName) (lines 423-439).
RetrySource(name) ==
  /\ mounted
  /\ IF SourceIndex(name) = 0
     THEN UNCHANGED <<loadingStates, errors, retryCounts, inFlight, cycles,
                      streak>>
     ELSE /\ retryCounts' = [retryCounts EXCEPT ![name] = 0]
          /\ streak' = [streak EXCEPT ![name] = 0]
          /\ StartCycle(store, prevParams, inFlight, loadingStates,
                        [errors EXCEPT ![name] = NoError])
  /\ onErrorCalls' = <<>>
  /\ UNCHANGED <<config, options, mounted, store, prevParams, retryTimers,
                 debounce, strayTimers, retryDelays, lastOk, lastSettled,
                 okSigs, bvars, rvars,
                 dvars, pvars, avars>>

\* clearError(sourceName) (lines 442-449).
ClearError(name) ==
  /\ mounted
  /\ errors' = [errors EXCEPT ![name] = NoError]
  /\ retryCounts' = [retryCounts EXCEPT ![name] = 0]
  /\ streak' = [streak EXCEPT ![name] = 0]
  /\ onErrorCalls' = <<>>
  /\ UNCHANGED <<config, options, mounted, store, loadingStates, prevParams,
                 inFlight, cycles, retryTimers, debounce, strayTimers,
                 retryDelays, lastOk, lastSettled, okSigs, bvars, rvars,
                 dvars, pvars, avars>>

\* The call awaited by cycle c resolves with data: lines 188-278, the
\* finally block, and the loop's next iterations, which still read the
\* storeRef of before the merge; then the render commits the merged store
\* and Effect 3 runs.
CallResolves(c, data) ==
  /\ cycles[c] # Idle
  /\ LET source == config.sources[cycles[c].pos]
         name == source.sourceName
         pp == [prevParams EXCEPT ![name] = cycles[c].sig]
     IN  /\ store' = MergeFetched(store, source, data)
         /\ prevParams' = pp
         /\ retryCounts' = [retryCounts EXCEPT ![name] = 0]
         /\ streak' = [streak EXCEPT ![name] = 0]
         /\ RunCycle(c, cycles[c].pos + 1, ResolvedFrom(1, store), pp,
                     inFlight \ {name},
                     [loadingStates EXCEPT ![name] = FALSE], errors)
         /\ Effect3(store', pp, inFlight')
         /\ lastOk' = [lastOk EXCEPT ![name] = cycles[c].sig]
         /\ lastSettled' = [lastSettled EXCEPT ![name] = cycles[c].sig]
         /\ okSigs' = [okSigs EXCEPT ![name] = @ \cup {cycles[c].sig}]
  /\ onErrorCalls' = <<>>
  /\ UNCHANGED <<config, options, mounted, retryTimers, retryDelays, bvars,
                 rvars, pvars, avars>>
  /\ SaveInitial(store')
  /\ UNCHANGED <<dynamicForm, formErrors, submitStatus, successTimers>>

\* What api.call may reject with: an Error, or a value that is not one.
ApiErrorThrown == [isError |-> TRUE, message |-> "API Error"]

Rejections == {ApiErrorThrown, [isError |-> FALSE, message |-> ""]}

\* err instanceof Error ? err.message : 'Unknown error occurred'
ErrorMessage(err) ==
  IF err.isError THEN err.message ELSE "Unknown error occurred"

\* The callback invoked whether or not the option is given.
OnErrorInvocationsAlways(apiError) == <<apiError>>

\* if (onError) onError(apiError)
OnErrorInvocations(apiError) == IF options.onError THEN <<apiError>> ELSE <<>>

\* A delay that grows by retryDelay with every retry.
BackoffDelayLinear(currentRetryCount) ==
  options.retryDelay * (currentRetryCount + 1)

\* const delay = retryDelay * Math.pow(2, currentRetryCount)
BackoffDelay(currentRetryCount) == options.retryDelay * 2 ^ currentRetryCount

\* The call awaited by cycle c rejects: lines 279-334, the finally block,
\* and the loop's next iterations.
CallRejects(c, err) ==
  /\ cycles[c] # Idle
  /\ LET source == config.sources[cycles[c].pos]
         name == source.sourceName
         currentRetryCount == retryCounts[name]
         apiError == [sourceName |-> name, endpoint |-> cycles[c].url,
                      message |-> ErrorMessage(err),
                      retryCount |-> currentRetryCount]
     IN  /\ onErrorCalls' = OnErrorInvocations(apiError)
         /\ lastSettled' = [lastSettled EXCEPT ![name] = NoSig]
         /\ IF currentRetryCount < options.maxRetries
            THEN /\ retryTimers[name] < MaxTimers
                 /\ retryCounts' = [retryCounts EXCEPT ![name] = @ + 1]
                 /\ retryTimers' = [retryTimers EXCEPT ![name] = @ + 1]
                 /\ retryDelays' = [retryDelays EXCEPT ![name] =
                                      BackoffDelay(currentRetryCount)]
                 /\ streak' = [streak EXCEPT ![name] = @ + 1]
            ELSE /\ retryCounts' = [retryCounts EXCEPT ![name] = 0]
                 /\ streak' = [streak EXCEPT ![name] = 0]
                 /\ UNCHANGED <<retryTimers, retryDelays>>
         /\ RunCycle(c, cycles[c].pos + 1, ResolvedFrom(1, store), prevParams,
                     inFlight \ {name},
                     [loadingStates EXCEPT ![name] = FALSE],
                     [errors EXCEPT ![name] = apiError])
  /\ UNCHANGED <<config, options, mounted, store, prevParams, debounce,
                 strayTimers, lastOk, okSigs, bvars, rvars,
                 dvars, pvars, avars>>

(***************************************************************************)
(* Events of DynamicForm beside the field edits                            *)
(***************************************************************************)
\* The updater of handleReset's else branch: { ...reset, ...prev }.
ResetSpread(prev) ==
  LET names == {config.sources[i].sourceName : i \in DOMAIN config.sources}
  IN  Obj([k \in names \cup DOMAIN prev.f |->
             IF k \in DOMAIN prev.f THEN prev.f[k]
             ELSE IF k = "object" THEN EmptyObj ELSE Arr(<<>>)])

\* handleReset (lines 473-502) with persistState off, and the render with
\* its effects that follows.
HandleReset ==
  /\ mounted
  /\ dynamicForm
  /\ store' = IF KeysLength(initialStoreRef) > 0
              THEN JsonClone(initialStoreRef)
              ELSE ResetSpread(store)
  /\ formErrors' = {}
  /\ submitStatus' = "null"
  /\ Effect3(store', prevParams, inFlight)
  /\ SaveInitial(store')
  /\ onErrorCalls' = <<>>
  /\ UNCHANGED <<config, options, mounted, loadingStates, errors, prevParams,
                 retryCounts, inFlight, cycles, retryTimers, retryDelays,
                 streak, lastOk, lastSettled, okSigs, dynamicForm,
                 successTimers, bvars, rvars, pvars, avars>>

\* handleSubmit (lines 422-470) with persistState off.  rejected: the
\* customValidator of the field returns a message; thrown: onSubmit throws.
HandleSubmit(rejected, thrown) ==
  /\ mounted
  /\ dynamicForm
  /\ formErrors' = IF rejected
                   THEN {config.fields[i].binding : i \in DOMAIN config.fields}
                   ELSE {}
  /\ IF rejected
     THEN /\ submitStatus' = "error"
          /\ onErrorCalls' = <<>>
          /\ UNCHANGED successTimers
     ELSE IF thrown
     THEN /\ submitStatus' = "error"
          /\ onErrorCalls' =
               OnErrorInvocations([sourceName |-> "form-submission",
                                   endpoint |-> "",
                                   message |-> ErrorMessage(ApiErrorThrown),
                                   retryCount |-> 0])
          /\ UNCHANGED successTimers
     ELSE /\ successTimers < MaxTimers
          /\ submitStatus' = "success"
          /\ successTimers' = successTimers + 1
          /\ onErrorCalls' = <<>>
  /\ UNCHANGED <<config, options, mounted, store, loadingStates, errors,
                 prevParams, retryCounts, inFlight, cycles, retryTimers,
                 debounce, strayTimers, retryDelays, streak, lastOk,
                 lastSettled, okSigs, dynamicForm, initialStoreRef,
                 isInitializedRef, bvars, rvars, pvars, avars>>

\* setTimeout(() => setSubmitStatus(null), successTimeout) of line 444.
SuccessTimeout ==
  /\ successTimers > 0
  /\ successTimers' = successTimers - 1
  /\ submitStatus' = "null"
  /\ onErrorCalls' = <<>>
  /\ UNCHANGED <<config, options, mounted, store, loadingStates, errors,
                 prevParams, retryCounts, inFlight, cycles, retryTimers,
                 debounce, strayTimers, retryDelays, streak, lastOk,
                 lastSettled, okSigs, dynamicForm, initialStoreRef,
                 isInitializedRef, formErrors, bvars, rvars, pvars, avars>>

\* The hook before its first render, given the config prop.
StartWith(c, o) ==
  /\ config = c
  /\ options = o
  /\ mounted = FALSE
  /\ store = EmptyObj
  /\ loadingStates = [n \in SourceKeys |-> FALSE]
  /\ errors = [n \in SourceKeys |-> NoError]
  /\ prevParams = [n \in SourceKeys |-> NoSig]
  /\ retryCounts = [n \in SourceKeys |-> 0]
  /\ inFlight = {}
  /\ cycles = [c2 \in 1 .. MaxCycles |-> Idle]
  /\ retryTimers = [n \in SourceKeys |-> 0]
  /\ debounce = FALSE
  /\ strayTimers = 0
  /\ retryDelays = [n \in SourceKeys |-> 0]
  /\ onErrorCalls = <<>>
  /\ streak = [n \in SourceKeys |-> 0]
  /\ lastOk = [n \in SourceKeys |-> NoSig]
  /\ lastSettled = [n \in SourceKeys |-> NoSig]
  /\ okSigs = [n \in SourceKeys |-> {}]

\* The options with maxRetries = m, the default retryDelay, and an onError
\* callback or none.
HookOptions(m, onError) ==
  [maxRetries |-> m, retryDelay |-> DefaultRetryDelay, onError |-> onError]

\* The hook with maxRetries lowered to the bound of the model and an
\* onError callback.
Start(c) == StartWith(c, HookOptions(MaxRetries, TRUE))

Init ==
  /\ (\E c \in Configs : Start(c))
  /\ BindIdle
  /\ RegistryIdle
  /\ FormIdle /\ PureIdle /\ AsyncIdle

Next ==
  \/ Mount
  \/ ConfigChange
  \/ \E path \in EditPaths : \E value \in EditValues(path) :
       SetField(path, value)
  \/ DebounceFire
  \/ \E name \in AllSourceNames : RetryTimerFire(name)
  \/ \E name \in AllSourceNames \cup {"other"} : RetrySource(name)
  \/ \E name \in AllSourceNames : ClearError(name)
  \/ \E c \in 1 .. MaxCycles : \E data \in Responses : CallResolves(c, data)
  \/ \E c \in 1 .. MaxCycles : CallRejects(c, ApiErrorThrown)

Spec == Init /\ [][Next]_vars

\* The hook with two sources in one config, the second depending on the
\* Store, left to itself: the form edits the parameter of the dependent
\* source, and there is no manual retry and no config change.
InitChain ==
  /\ Start(ChainConfig)
  /\ BindIdle /\ RegistryIdle /\ FormIdle /\ PureIdle /\ AsyncIdle

NextChain ==
  \/ Mount
  \/ \E value \in EditValues(<<"object", ".", "country">>) :
       SetField(<<"object", ".", "country">>, value)
  \/ DebounceFire
  \/ \E name \in AllSourceNames : RetryTimerFire(name)
  \/ \E c \in 1 .. MaxCycles : \E data \in Responses : CallResolves(c, data)
  \/ \E c \in 1 .. MaxCycles : CallRejects(c, ApiErrorThrown)

SpecChain == InitChain /\ [][NextChain]_vars

\* The hook with the default options (three automatic retries) and a config
\* of the lookup list alone, under all its events: no source has parameters,
\* so Effect 3 never schedules a re-run and its timeout never fires.
InitRetry ==
  /\ StartWith([sources |-> <<CountryList>>, fields |-> <<>>],
               HookOptions(DefaultMaxRetries, TRUE))
  /\ BindIdle
  /\ RegistryIdle
  /\ FormIdle /\ PureIdle /\ AsyncIdle

NextRetry ==
  \/ Mount
  \/ ConfigChange
  \/ \E path \in EditPaths : \E value \in EditValues(path) :
       SetField(path, value)
  \/ \E name \in AllSourceNames : RetryTimerFire(name)
  \/ \E name \in AllSourceNames \cup {"other"} : RetrySource(name)
  \/ \E name \in AllSourceNames : ClearError(name)
  \/ \E c \in 1 .. MaxCycles : \E data \in Responses : CallResolves(c, data)
  \/ \E c \in 1 .. MaxCycles : CallRejects(c, ApiErrorThrown)

SpecRetry == InitRetry /\ [][NextRetry]_vars

\* The hook with two sources in one config and automatic retries switched
\* off (maxRetries: 0), under every other event; the form sets and changes
\* the parameter of the dependent source.
InitOrder ==
  /\ StartWith(ChainConfig, HookOptions(0, TRUE))
  /\ BindIdle
  /\ RegistryIdle
  /\ FormIdle /\ PureIdle /\ AsyncIdle

NextOrder ==
  \/ Mount
  \/ ConfigChange
  \/ \E value \in EditValues(<<"object", ".", "country">>) :
       SetField(<<"object", ".", "country">>, value)
  \/ DebounceFire
  \/ \E name \in AllSourceNames : RetrySource(name)
  \/ \E name \in AllSourceNames : ClearError(name)
  \/ \E c \in 1 .. MaxCycles : \E data \in Responses : CallResolves(c, data)
  \/ \E c \in 1 .. MaxCycles : CallRejects(c, ApiErrorThrown)

SpecOrder == InitOrder /\ [][NextOrder]_vars

\* The hook with the dependent source, with or without an onError callback
\* and a provider that rejects with an Error or with another value; the
\* form sets and empties the source's parameter.
InitFail ==
  /\ \E onError \in BOOLEAN :
       StartWith([sources |-> <<StateList>>, fields |-> <<>>],
                 HookOptions(MaxRetries, onError))
  /\ BindIdle
  /\ RegistryIdle
  /\ FormIdle /\ PureIdle /\ AsyncIdle

NextFail ==
  \/ Mount
  \/ ConfigChange
  \/ \E value \in EditValues(<<"object", ".", "country">>) :
       SetField(<<"object", ".", "country">>, value)
  \/ DebounceFire
  \/ \E name \in AllSourceNames : RetryTimerFire(name)
  \/ \E name \in AllSourceNames \cup {"other"} : RetrySource(name)
  \/ \E name \in AllSourceNames : ClearError(name)
  \/ \E c \in 1 .. MaxCycles : \E data \in Responses : CallResolves(c, data)
  \/ \E c \in 1 .. MaxCycles : \E err \in Rejections : CallRejects(c, err)

SpecFail == InitFail /\ [][NextFail]_vars

(***************************************************************************)
(* SpecBind: BindingResolver.set and resolve on bounded inputs; the hook   *)
(* stays unmounted.                                                        *)
(***************************************************************************)
FetchIdle == Start([sources |-> <<CountryList>>, fields |-> <<>>])

BindInputs ==
  /\ bPhase = "input"
  /\ bPath \in BindPaths
  /\ bValue \in BindValues
  /\ bStore \in BindStores
  /\ bOut = NoOutcome
  /\ bRead = Undef

BindInit ==
  /\ BindInputs
  /\ FetchIdle /\ RegistryIdle /\ FormIdle /\ PureIdle /\ AsyncIdle

\* newStore = resolver.set(path, value, store)
DoSet ==
  /\ bPhase = "input"
  /\ bOut' = set(bPath, bValue, bStore)
  /\ bPhase' = "set"
  /\ UNCHANGED <<bPath, bValue, bStore, bRead, fvars, rvars, dvars, pvars,
                 avars>>

\* resolver.resolve(path, newStore), when set returned
DoResolveAfterSet ==
  /\ bPhase = "set"
  /\ ~bOut.threw
  /\ bRead' = resolve(bPath, bOut.store)
  /\ bPhase' = "read"
  /\ UNCHANGED <<bPath, bValue, bStore, bOut, fvars, rvars, dvars, pvars,
                 avars>>

\* resolver.resolve(path, store)
DoResolve ==
  /\ bPhase = "input"
  /\ bRead' = resolve(bPath, bStore)
  /\ bPhase' = "resolved"
  /\ UNCHANGED <<bPath, bValue, bStore, bOut, fvars, rvars, dvars, pvars,
                 avars>>

BindNext == DoSet \/ DoResolveAfterSet \/ DoResolve

SpecBind == BindInit /\ [][BindNext]_vars

(***************************************************************************)
(* SpecRegistry: a FieldRegistry and the caller of its getAll; the hook    *)
(* stays unmounted.                                                        *)
(***************************************************************************)
RegistryInit ==
  /\ RegistryIdle
  /\ FetchIdle /\ BindIdle /\ FormIdle /\ PureIdle /\ AsyncIdle

\* registry.register(fieldType, component, override)
Register(fieldType, component, override) ==
  /\ fields' = register(fields, fieldType, component, override).fields
  /\ threw' = register(fields, fieldType, component, override).threw
  /\ returned' = IF returned.alias THEN [returned EXCEPT !.map = fields']
                 ELSE returned
  /\ UNCHANGED <<fvars, bvars, dvars, pvars, avars>>

\* The registrations given to registerMany: the entries of a Map or of an
\* object, each field type once.
Batches ==
  {<<[key |-> t, value |-> c]>> : t \in FieldTypes, c \in Components} \cup
  {<<[key |-> t1, value |-> c1], [key |-> t2, value |-> c2]>> :
     <<t1, t2>> \in {tt \in FieldTypes \X FieldTypes : tt[1] # tt[2]},
     <<c1, c2>> \in Components \X Components}

\* registry.registerMany(registrations, override)
RegisterMany(entries, override) ==
  /\ fields' = registerMany(fields, entries, override).fields
  /\ threw' = registerMany(fields, entries, override).threw
  /\ returned' = IF returned.alias THEN [returned EXCEPT !.map = fields']
                 ELSE returned
  /\ UNCHANGED <<fvars, bvars, dvars, pvars, avars>>

\* registry.unregister(fieldType)
Unregister(fieldType) ==
  /\ fields' = MapDelete(fields, fieldType)
  /\ threw' = FALSE
  /\ returned' = IF returned.alias THEN [returned EXCEPT !.map = fields']
                 ELSE returned
  /\ UNCHANGED <<fvars, bvars, dvars, pvars, avars>>

\* registry.clear()
Clear ==
  /\ fields' = <<>>
  /\ threw' = FALSE
  /\ returned' = IF returned.alias THEN [returned EXCEPT !.map = fields']
                 ELSE returned
  /\ UNCHANGED <<fvars, bvars, dvars, pvars, avars>>

\* all = registry.getAll()
GetAll ==
  /\ returned' = getAll(fields)
  /\ threw' = FALSE
  /\ UNCHANGED <<fields, fvars, bvars, dvars, pvars, avars>>

\* all.set(fieldType, component) by the caller of getAll
ReturnedSet(fieldType, component) ==
  /\ returned # NoMap
  /\ returned' = [returned EXCEPT !.map = MapSet(@, fieldType, component),
                                !.changed = TRUE]
  /\ fields' = IF returned.alias THEN returned'.map ELSE fields
  /\ UNCHANGED <<threw, fvars, bvars, dvars, pvars, avars>>

\* all.delete(fieldType) by the caller of getAll
ReturnedDelete(fieldType) ==
  /\ returned # NoMap
  /\ returned' = [returned EXCEPT !.map = MapDelete(@, fieldType),
                                !.changed = TRUE]
  /\ fields' = IF returned.alias THEN returned'.map ELSE fields
  /\ UNCHANGED <<threw, fvars, bvars, dvars, pvars, avars>>

RegistryNext ==
  \/ \E t \in FieldTypes : \E c \in Components : \E o \in BOOLEAN :
       Register(t, c, o)
  \/ \E entries \in Batches : \E o \in BOOLEAN : RegisterMany(entries, o)
  \/ \E t \in FieldTypes : Unregister(t)
  \/ Clear
  \/ GetAll
  \/ \E t \in FieldTypes : \E c \in Components : ReturnedSet(t, c)
  \/ \E t \in FieldTypes : ReturnedDelete(t)

SpecRegistry == RegistryInit /\ [][RegistryNext]_vars

(***************************************************************************)
(* SpecForm: a DynamicForm over FormConfig with maxRetries = 0: the main   *)
(* object loads or fails, the user edits, submits and resets.              *)
(***************************************************************************)
\* What the user types into the form.
FormEdits == {Str("US"), Str("CA")}

\* What the provider answers for the main object and for the state list.
FormResponse(source) ==
  IF source.sourceName = "object"
  THEN Obj([country |-> Str("PT")])
  ELSE Arr(<<Str("x")>>)

InitForm ==
  /\ StartWith(FormConfig, HookOptions(0, TRUE))
  /\ BindIdle
  /\ RegistryIdle
  /\ FormState(FALSE)
  /\ PureIdle /\ AsyncIdle

NextForm ==
  \/ Mount
  \/ \E value \in FormEdits : SetField(CountryField.binding, value)
  \/ DebounceFire
  \/ \E c \in 1 .. MaxCycles :
       /\ cycles[c] # Idle
       /\ CallResolves(c, FormResponse(config.sources[cycles[c].pos]))
  \/ \E c \in 1 .. MaxCycles : CallRejects(c, ApiErrorThrown)
  \/ \E rejected \in BOOLEAN : \E thrown \in BOOLEAN :
       HandleSubmit(rejected, thrown)
  \/ SuccessTimeout
  \/ HandleReset

SpecForm == InitForm /\ [][NextForm]_vars

(***************************************************************************)
(* SpecMerge: the hook over configs with a main object, a list source and  *)
(* one List field, with maxRetries = 0: the sources load or fail in either *)
(* declaration order, with varied responses, and the user edits fields of  *)
(* the main object.                                                        *)
(***************************************************************************)
\* A list loaded without parameters.
ExperienceList ==
  [sourceName |-> "experienceList", sourceType |-> "API",
   endpoint |-> <<"/api/experience">>,
   hasParameters |-> FALSE, parameters |-> <<>>]

\* List fields fed by experienceList, bound to a key with another name, to
\* the key of the same name, to a nested key, under an indexed element, and
\* under a root that is no source.
ListBindings ==
  {<<"object", ".", "userExperience">>,
   <<"object", ".", "experienceList">>,
   <<"object", ".", "profile", ".", "jobs">>,
   <<"object", ".", "jobs", "[", "0", "]", ".", "tasks">>,
   <<"other", ".", "jobs">>}

ListField(binding) ==
  [fieldType |-> "List", binding |-> binding, listSource |-> "experienceList"]

MergeConfigs ==
  {[sources |-> srcs, fields |-> <<ListField(b)>>] :
     srcs \in {<<ObjectSource, ExperienceList>>,
               <<ExperienceList, ObjectSource>>},
     b \in ListBindings}

Experience == Arr(<<Str("x")>>)

\* What the provider may answer for a source.
MergeResponses(source) ==
  IF source.sourceName = "object"
  THEN {Obj([country |-> Str("PT")]),
        Obj([country |-> Str("PT"), experienceList |-> Experience])}
  ELSE {Experience, Arr(<<>>), Obj([total |-> Num(1), rows |-> Experience])}

\* The fields of the main object the user edits: one the responses carry
\* and one they do not.
MergeEdits == {<<"object", ".", "country">>, <<"object", ".", "nickname">>}

InitMerge ==
  /\ \E c \in MergeConfigs : StartWith(c, HookOptions(0, TRUE))
  /\ BindIdle
  /\ RegistryIdle
  /\ FormIdle
  /\ PureIdle /\ AsyncIdle

NextMerge ==
  \/ Mount
  \/ ConfigChange
  \/ \E path \in MergeEdits : SetField(path, Str("US"))
  \/ \E c \in 1 .. MaxCycles :
       /\ cycles[c] # Idle
       /\ \E data \in MergeResponses(config.sources[cycles[c].pos]) :
            CallResolves(c, data)
  \/ \E c \in 1 .. MaxCycles : CallRejects(c, ApiErrorThrown)

SpecMerge == InitMerge /\ [][NextMerge]_vars

(***************************************************************************)
(* SpecUrl: the hook over configs of one source with two parameters, in    *)
(* either declaration order and over several endpoint templates, with      *)
(* maxRetries = 0; the user edits the two fields the parameters read.      *)
(***************************************************************************)
IdParam == [name |-> "id", path |-> <<"object", ".", "id">>]

OrderParam == [name |-> "orderId", path |-> <<"object", ".", "order">>]

Endpoints ==
  {<<"/api/users/", "{id}", "/orders/", "{orderId}">>,
   <<"/api/orders/", "{orderId}", "?user=", "{id}">>,
   <<"/api/orders/", "{orderId}">>}

UrlConfigs ==
  {[sources |-> <<[sourceName |-> "stateList", sourceType |-> "API",
                   endpoint |-> e, hasParameters |-> TRUE,
                   parameters |-> ps]>>,
    fields |-> <<>>] :
     e \in Endpoints, ps \in {<<IdParam, OrderParam>>, <<OrderParam, IdParam>>}}

UrlEdits ==
  {<<IdParam.path, Str("7")>>, <<IdParam.path, Str("8")>>,
   <<OrderParam.path, Str("9")>>, <<OrderParam.path, Str("")>>}

InitUrl ==
  /\ \E c \in UrlConfigs : StartWith(c, HookOptions(0, TRUE))
  /\ BindIdle
  /\ RegistryIdle
  /\ FormIdle
  /\ PureIdle /\ AsyncIdle

NextUrl ==
  \/ Mount
  \/ ConfigChange
  \/ \E e \in UrlEdits : SetField(e[1], e[2])
  \/ DebounceFire
  \/ \E c \in 1 .. MaxCycles : \E data \in Responses : CallResolves(c, data)
  \/ \E c \in 1 .. MaxCycles : CallRejects(c, ApiErrorThrown)

SpecUrl == InitUrl /\ [][NextUrl]_vars

(***************************************************************************)
(* SpecVisible: isFieldVisible of DynamicForm (lines 119-152) applied to   *)
(* bounded fields and stores.  A field is [visible, predicate, dependsOn]: *)
(* visible is "undefined", "true", "false" or "function", predicate is     *)
(* what the function returns for the store; dependsOn is NoDependsOn or    *)
(* [field, value, values, condition] with value Undef and values NoValues  *)
(* when absent, and condition "undefined" or what the function returns     *)
(* for the dependent value.                                                *)
(***************************************************************************)
NoDependsOn == [none |-> TRUE]

NoValues == [none |-> TRUE]

\* a === b for the values of the model: an object of the config is never
\* the object found in the store.
StrictEquals(a, b) == (IsPrimitive(a) \/ IsNullish(a)) /\ a = b

\* values.includes(x): SameValueZero, which is === on these values.
Includes(values, x) == \E i \in DOMAIN values : StrictEquals(values[i], x)

\* The dependsOn branch reading through BindingResolver.resolve.
DependsOnHoldsResolved(dependsOn, st) ==
  LET dependentValue == resolve(dependsOn.field, st)
  IN  IF dependsOn.value # Undef
      THEN StrictEquals(dependentValue, dependsOn.value)
      ELSE IF dependsOn.values # NoValues
      THEN Includes(dependsOn.values, dependentValue)
      ELSE IF dependsOn.condition # "undefined"
      THEN dependsOn.condition = "true"
      ELSE Truthy(dependentValue)

\* Lines 131-149: false is `return false`.
DependsOnHolds(dependsOn, st) ==
  LET dependentValue == getNestedValue(st, dependsOn.field)
  IN  IF dependsOn.value # Undef
      THEN StrictEquals(dependentValue, dependsOn.value)
      ELSE IF dependsOn.values # NoValues
      THEN Includes(dependsOn.values, dependentValue)
      ELSE IF dependsOn.condition # "undefined"
      THEN dependsOn.condition = "true"
      ELSE Truthy(dependentValue)

isFieldVisible(field, st) ==
  IF field.visible = "false" THEN FALSE
  ELSE IF field.visible = "function" /\ ~field.predicate THEN FALSE
  ELSE IF field.dependsOn # NoDependsOn
  THEN DependsOnHolds(field.dependsOn, st)
  ELSE TRUE

DependentPaths ==
  {<<"object", ".", "country">>, <<"queryString", ".", "userId">>,
   <<"object">>}

DependsOnSet ==
  {NoDependsOn} \cup
  [field : DependentPaths,
   value : {Undef, Null, Str("US"), Str("123")},
   values : {NoValues, <<>>, <<Str("US"), Str("CA")>>},
   condition : {"undefined", "true", "false"}]

VisibleFields ==
  {f \in [visible : {"undefined", "true", "false", "function"},
          predicate : BOOLEAN,
          dependsOn : DependsOnSet] :
     f.visible # "function" => f.predicate}

VisibleStores ==
  {EmptyObj,
   Obj([object |-> EmptyObj]),
   Obj([object |-> Obj([country |-> Str("")])]),
   Obj([object |-> Obj([country |-> Str("US")])])}

InitVisible ==
  /\ vField \in VisibleFields
  /\ vStore \in VisibleStores
  /\ vVisible = "none"
  /\ ResolverIdle
  /\ FetchIdle
  /\ BindIdle
  /\ RegistryIdle
  /\ FormIdle
  /\ AsyncIdle

\* The render asks whether the field is shown.
Render ==
  /\ vVisible = "none"
  /\ vVisible' = IF isFieldVisible(vField, vStore) THEN "true" ELSE "false"
  /\ UNCHANGED <<vField, vStore, strategies, found, fvars, bvars, rvars,
                 dvars, avars>>

SpecVisible == InitVisible /\ [][Render]_vars

(***************************************************************************)
(* Properties of the hook (Spec, SpecChain)                                *)
(***************************************************************************)
\* This step passes a call for the source called name to the provider:
\* a cycle comes to wait at a call it did not wait at before.
IssuesCall(name) ==
  \E c \in 1 .. MaxCycles :
    /\ cycles'[c] # cycles[c]
    /\ cycles'[c] # Idle
    /\ config.sources[cycles'[c].pos].sourceName = name

\* C1: at no time are two provider calls for the same source outstanding,
\* whatever the interleaving of config-driven cycles, debounced cycles,
\* retry timers and manual retries; cycles overlap only on different sources.
C1_OneCallPerSource ==
  \A c, d \in 1 .. MaxCycles :
    (c # d /\ cycles[c] # Idle /\ cycles[d] # Idle)
      => cycles[c].pos # cycles[d].pos

\* The last call for name failed with the retry counter at maxRetries, and
\* no call for name has been issued nor has its error been cleared since.
FinalFailure(name) ==
  errors[name] # NoError /\ errors[name].retryCount >= options.maxRetries

\* C2: once a source's call has failed with its retry counter at maxRetries,
\* no further call for that source is issued unless a manual retry, a Store
\* mutation or a config change triggers it: with no retry of the source and
\* no re-run from a Store mutation pending, the retry timer of another
\* source issues no call for it.
C2_NoCallAfterFinalFailure ==
  [][\A s \in AllSourceNames :
       (/\ FinalFailure(s)
        /\ retryTimers[s] = 0
        /\ ~debounce
        /\ \E t \in AllSourceNames \ {s} : retryTimers'[t] < retryTimers[t])
         => ~IssuesCall(s)]_vars

\* undefined, null or the empty string
EmptyValue(v) ==
  v.t = "undefined" \/ v.t = "null" \/ (v.t = "string" /\ v.s = "")

\* C3: a source that declares parameters is never passed to the provider
\* while one of its parameters resolves, against the Store the cycle reads,
\* to undefined, null or the empty string; it is fetched only by a cycle
\* that finds every parameter non-empty.
C3_FetchGating ==
  [][\A c \in 1 .. MaxCycles :
       (cycles'[c] # cycles[c] /\ cycles'[c] # Idle)
         => LET source == config.sources[cycles'[c].pos]
            IN  \A i \in DOMAIN source.parameters :
                  ~EmptyValue(getNestedValue(store, source.parameters[i].path))
    ]_vars

\* A call for a source with parameters is outstanding; the source was
\* skipped at mount, when the Store was empty.
C3_Witness ==
  \E c \in 1 .. MaxCycles :
    /\ cycles[c] # Idle
    /\ config.sources[cycles[c].pos].hasParameters
    /\ ~EmptyValue(getNestedValue(store, <<"object", ".", "country">>))

\* C4: once a fetch of a dependent source has succeeded for a signature, no
\* further call for that source is issued with the same signature as long as
\* that fetch is its last successful one, however many cycles run.
C4_NoCallForCachedSignature ==
  [][\A c \in 1 .. MaxCycles :
       (/\ cycles'[c] # cycles[c]
        /\ cycles'[c] # Idle
        /\ config.sources[cycles'[c].pos].hasParameters)
         => cycles'[c].sig #
              lastOk[config.sources[cycles'[c].pos].sourceName]]_vars

\* C5: a dependent source is fetched once per parameter combination: after
\* successful fetches for value A and then for value B, going back to A
\* issues no call.
C5_OncePerCombination ==
  [][\A c \in 1 .. MaxCycles :
       (/\ cycles'[c] # cycles[c]
        /\ cycles'[c] # Idle
        /\ config.sources[cycles'[c].pos].hasParameters)
         => LET name == config.sources[cycles'[c].pos].sourceName
            IN  cycles'[c].sig \notin okSigs[name] \ {lastOk[name]}]_vars

\* This step is a field edit that changes the Store and leaves the resolved
\* value of every parameter of every source as it was.
UnrelatedEdit ==
  /\ store' # store
  /\ \E path \in EditPaths : \E value \in EditValues(path) :
       /\ ~set(path, value, store).threw
       /\ store' = set(path, value, store).store
  /\ \A i \in DOMAIN config.sources :
       ResolvedParams(config.sources[i], store') =
         ResolvedParams(config.sources[i], store)

\* Every source with parameters has an unresolved parameter, is in flight,
\* or has the signature it resolves to as its cached signature.
Settled ==
  \A i \in DOMAIN config.sources :
    LET source == config.sources[i] IN
      source.hasParameters =>
        \/ \E k \in DOMAIN source.parameters :
             EmptyValue(getNestedValue(store, source.parameters[k].path))
        \/ source.sourceName \in inFlight
        \/ prevParams[source.sourceName] = Resolved(source, store).sig

C12_BackoffGrowth ==
  [][\A name \in AllSourceNames :
       /\ retryCounts'[name] = streak'[name]
       /\ retryTimers'[name] > retryTimers[name] =>
            /\ streak'[name] \in 1 .. options.maxRetries
            /\ retryDelays'[name] =
                 options.retryDelay * 2 ^ (streak'[name] - 1)]_vars

\* The third automatic retry in a row is pending, with four times the base
\* delay.
C12_Witness ==
  \E name \in AllSourceNames :
    /\ retryTimers[name] > 0
    /\ streak[name] = 3
    /\ retryDelays[name] = 4 * DefaultRetryDelay

\* C13: in a config of lookup lists only (no source named 'object'), when
\* the call for a parameterless source resolves with an array, the Store
\* holds that array under the source's name and the source's loading flag
\* goes from true to false.
C13_LookupListStored ==
  [][\A c \in 1 .. MaxCycles : \A data \in Responses :
       (/\ CallResolves(c, data)
        /\ ~config.sources[cycles[c].pos].hasParameters
        /\ \A i \in DOMAIN config.sources :
             config.sources[i].sourceName # "object")
         => LET name == config.sources[cycles[c].pos].sourceName
            IN  /\ Get(store', name) = data
                /\ loadingStates[name]
                /\ ~loadingStates'[name]]_vars

\* C14: when a provider call rejects, the fetch cycle swallows the rejection
\* and goes on with the later sources; the Store is left as it was; the
\* error map holds, under the source's name, a record with the source name,
\* the resolved endpoint, the message and the retry count of the moment of
\* the failure; and onError is invoked exactly once, with that record, when
\* it is configured and not at all otherwise.
C14_FailureHandling ==
  [][\A c \in 1 .. MaxCycles : \A err \in Rejections :
       CallRejects(c, err) =>
         LET name == config.sources[cycles[c].pos].sourceName IN
           /\ cycles'[c] = Idle \/ cycles'[c].pos > cycles[c].pos
           /\ store' = store
           /\ errors'[name] # NoError
           /\ errors'[name].sourceName = name
           /\ errors'[name].endpoint = cycles[c].url
           /\ err.isError => errors'[name].message = err.message
           /\ errors'[name].retryCount = retryCounts[name]
           /\ onErrorCalls' =
                IF options.onError THEN <<errors'[name]>> ELSE <<>>]_vars

\* A call for the dependent source has just failed: its error is in the map
\* with the endpoint resolved for 'US', onError was invoked with it, and the
\* Store still holds the source's placeholder.
C14_Witness ==
  /\ errors["stateList"] # NoError
  /\ errors["stateList"].endpoint = "/api/states?country=US"
  /\ onErrorCalls = <<errors["stateList"]>>
  /\ Get(store, "stateList") = Arr(<<>>)

\* C15: at most one timeout of Effect 3 is pending at any time, and every
\* Store mutation cancels the one that was pending: after a mutation the
\* only timeout that can be pending is the one that mutation scheduled, so a
\* burst of mutations with no timeout firing in between leaves at most one
\* re-run of the fetch cycle, after its last mutation.
C15_DebounceCoalescing ==
  [][/\ (IF debounce' THEN 1 ELSE 0) + strayTimers' <= 1
     /\ store' # store => strayTimers' = 0]_vars

\* After a burst of two edits of the form (the country, then the field no
\* source depends on) with no call issued for the dependent source, one
\* timeout is pending.
C15_Witness ==
  /\ debounce
  /\ strayTimers = 0
  /\ getNestedValue(store, <<"object", ".", "country">>) = Str("CA")
  /\ getNestedValue(store, <<"object", ".", "field">>) = Str("x")
  /\ prevParams["stateList"] = NoSig
  /\ errors["stateList"] = NoError
  /\ "stateList" \notin inFlight

\* C16: within one fetch cycle the calls are issued in declaration order and
\* one at a time: a cycle waiting at a call leaves it only when that call
\* resolves or rejects, and the next call it issues is for a later source;
\* as long as the call does not settle the cycle considers no later source.
C16_SequentialOrder ==
  [][\A c \in 1 .. MaxCycles :
       (cycles[c] # Idle /\ cycles'[c] # cycles[c])
         => /\ \/ \E data \in Responses : CallResolves(c, data)
               \/ CallRejects(c, ApiErrorThrown)
            /\ cycles'[c] # Idle => cycles'[c].pos > cycles[c].pos]_vars

\* A cycle waits at the call for the second source after the call it issued
\* for the first one has settled.
C16_Witness ==
  \E c \in 1 .. MaxCycles : cycles[c].pos = 2 /\ cycles[c].calls = 2

\* C17: retrySource(s) for a configured source s sets s's retry counter to
\* 0, removes s's entry from the error map and runs a fetch cycle in which no
\* source is called whose last settled call succeeded with the signature the
\* source has now (a source with a valid cached result); for a name that is
\* not configured it changes nothing and issues no call.
C17_ManualRetry ==
  [][\A name \in AllSourceNames \cup {"other"} :
       RetrySource(name) =>
         IF SourceIndex(name) = 0
         THEN UNCHANGED <<store, loadingStates, errors, prevParams,
                          retryCounts, inFlight, cycles, retryTimers,
                          debounce, strayTimers>>
         ELSE /\ retryCounts'[name] = 0
              /\ errors'[name] = NoError
              /\ \A c \in 1 .. MaxCycles :
                   (cycles'[c] # cycles[c] /\ cycles'[c] # Idle)
                     => cycles'[c].sig #
                          lastSettled[
                            config.sources[cycles'[c].pos].sourceName]
    ]_vars

(***************************************************************************)
(* Properties of BindingResolver (SpecBind)                                *)
(***************************************************************************)
\* C7: set(p, v, s) leaves s and everything reachable from s as it was, and
\* returns an object other than s unless the falsy-path / falsy-store guard
\* returned s itself; also when s[rootSource] is an array.
C7_SetLeavesArgument ==
  bPhase \in {"set", "read"} =>
    /\ bOut.arg = bStore
    /\ bOut.same => (bPath = <<>> \/ ~Truthy(bStore))

\* A path of the root, property names and indices only (no queryString).
PlainPath(path) ==
  /\ path # <<>>
  /\ \A i \in 1 .. Len(path) : path[i] \notin {"queryString", "userId"}

\* C8: for every well-formed path p and value v, resolve(p, set(p, v, {}))
\* is v, also when p indexes the root source directly.
C8_RoundTripFromEmptyStore ==
  (bPhase = "read" /\ PlainPath(bPath) /\ bStore = EmptyObj) => bRead = bValue

\* C9: set never throws, for every path and every store of JSON-like values.
C9_SetNeverThrows == bPhase = "set" => ~bOut.threw

\* Following the keys of the path from the store, the root source or a
\* segment before the last one is absent, null or an index out of range.
MissingAlong(path, st) ==
  LET keys == PathKeys(path) IN
    \E n \in 1 .. Len(keys) - 1 : IsNullish(ReduceKeys(st, SubSeq(keys, 1, n)))

\* C10: resolve returns undefined when the root source is absent or an
\* intermediate segment is missing, null or out of range.
C10_MissingPathReadsUndefined ==
  (bPhase = "resolved" /\ MissingAlong(bPath, bStore)) => bRead = Undef

\* Every segment of the path before the last one is, in the store, either
\* absent or of the kind its next segment asks for: an array before an
\* index, an object before a property name.
FitsPath(path, st) ==
  LET keys == PathKeys(path) IN
    \A n \in 1 .. Len(keys) - 1 :
      LET before == ReduceKeys(st, SubSeq(keys, 1, n))
      IN  \/ before = Undef
          \/ IF IsIndexKey(keys[n + 1]) THEN IsArr(before) ELSE IsObj(before)

\* C11: set creates every missing intermediate structure along the path: in
\* the returned store every segment before the last one holds an array long
\* enough for the index that follows it, or an object when a property name
\* follows.
C11_AutoVivification ==
  (bPhase = "set" /\ PlainPath(bPath) /\ ~bOut.threw /\ FitsPath(bPath, bStore))
    => LET keys == PathKeys(bPath) IN
         \A n \in 1 .. Len(keys) - 1 :
           LET after == ReduceKeys(bOut.store, SubSeq(keys, 1, n))
           IN  IF IsIndexKey(keys[n + 1])
               THEN IsArr(after) /\ Len(after.e) > KeyIndex(keys[n + 1])
               ELSE IsObj(after)


(***************************************************************************)
(* Properties of FieldRegistry (SpecRegistry)                              *)
(***************************************************************************)
\* The registry reports the same about every field type in m1 and in m2.
SameReports(m1, m2) ==
  /\ \A t \in FieldTypes : has(m1, t) = has(m2, t) /\ get(m1, t) = get(m2, t)
  /\ size(m1) = size(m2)
  /\ getRegisteredTypes(m1) = getRegisteredTypes(m2)

\* C18: register(t, c) of a type that is already registered throws when
\* override is false and leaves the registry as it was (get(t) is still the
\* earlier component, the size is the same); with override it replaces the
\* component and keeps the size; for an unregistered t it adds t, so that
\* has(t) holds, get(t) is c and the size is one more.  No other type's
\* entry changes in any of the three cases.
C18_RegisterContract ==
  [][\A t \in FieldTypes : \A c \in Components : \A o \in BOOLEAN :
       Register(t, c, o) =>
         /\ IF has(fields, t) /\ ~o
            THEN /\ threw'
                 /\ SameReports(fields', fields)
            ELSE /\ ~threw'
                 /\ has(fields', t)
                 /\ get(fields', t) = c
                 /\ size(fields') =
                      IF has(fields, t) THEN size(fields) ELSE size(fields) + 1
         /\ \A u \in FieldTypes \ {t} :
              /\ has(fields', u) = has(fields, u)
              /\ get(fields', u) = get(fields, u)
    ]_vars

\* A register call has thrown on a registry that holds both types.
C18_Witness == threw /\ size(fields) = 2


\* C19: getAll returns a copy.  After any sequence of register, unregister
\* and clear calls, adding to or deleting from a map that getAll returned
\* never changes what has, get, size or getRegisteredTypes of the registry
\* report.
C19_GetAllReturnsCopy ==
  [][(\/ \E t \in FieldTypes : \E c \in Components : ReturnedSet(t, c)
      \/ \E t \in FieldTypes : ReturnedDelete(t))
     => SameReports(fields', fields)]_vars

\* The caller of getAll has changed the returned map, which now differs from
\* a registry that holds both types.
C19_Witness ==
  /\ returned.changed
  /\ size(fields) = 2
  /\ ~SameReports(returned.map, fields)


(***************************************************************************)
(* Properties of DynamicForm (SpecForm)                                    *)
(***************************************************************************)
\* C20: after Reset the store equals the snapshot of the initially loaded
\* data when one was taken, and otherwise every configured source holds its
\* empty placeholder ({} for 'object', [] for the others); in both cases no
\* value the user entered is in the store any more, and the form error map
\* and the submit status are cleared.  The user's values (FormEdits) differ
\* from every loaded value, so a FormEdits value found at the field's
\* binding after Reset is one the user entered.
C20_ResetRestoresInitialState ==
  [][HandleReset =>
       /\ IF isInitializedRef
          THEN store' = initialStoreRef
          ELSE \A i \in DOMAIN config.sources :
                 Get(store', config.sources[i].sourceName) =
                   IF config.sources[i].sourceName = "object"
                   THEN EmptyObj ELSE Arr(<<>>)
       /\ resolve(CountryField.binding, store') \notin FormEdits
       /\ formErrors' = {}
       /\ submitStatus' = "null"
    ]_vars


(***************************************************************************)
(* Properties of isFieldVisible (SpecVisible)                              *)
(***************************************************************************)
\* C21: a field with visible = false, or with a visible predicate that
\* returns false for the store, is hidden; otherwise a field with dependsOn
\* is visible exactly when the value resolved at dependsOn.field strictly
\* equals dependsOn.value if value is given, else is a member of
\* dependsOn.values if given, else satisfies dependsOn.condition if given,
\* else is truthy; a field with neither is visible.  The value resolved at
\* a path is what BindingResolver.resolve reads from the store.
C21_FieldVisibility ==
  vVisible # "none" =>
    (vVisible = "true") =
      IF vField.visible = "false" THEN FALSE
      ELSE IF vField.visible = "function" /\ ~vField.predicate THEN FALSE
      ELSE IF vField.dependsOn # NoDependsOn
      THEN DependsOnHoldsResolved(vField.dependsOn, vStore)
      ELSE TRUE


(***************************************************************************)
(* Properties of the merge of a fetched source (SpecMerge)                 *)
(***************************************************************************)
\* The source that is the main object by the rule of C22: the source named
\* 'object' when the config has one, else the first parameterless API
\* source, else none.
MainObjectByName ==
  IF \E i \in DOMAIN config.sources : config.sources[i].sourceName = "object"
  THEN "object"
  ELSE IF \E i \in DOMAIN config.sources :
            /\ config.sources[i].sourceType = "API"
            /\ ~config.sources[i].hasParameters
       THEN config.sources[
              CHOOSE i \in DOMAIN config.sources :
                /\ config.sources[i].sourceType = "API"
                /\ ~config.sources[i].hasParameters
                /\ \A k \in 1 .. i - 1 :
                     ~(/\ config.sources[k].sourceType = "API"
                       /\ ~config.sources[k].hasParameters)].sourceName
       ELSE "object"

\* Cycle c merges a response: its call has just resolved.
Merges(c) ==
  /\ cycles[c] # Idle
  /\ \E data \in MergeResponses(config.sources[cycles[c].pos]) :
       CallResolves(c, data)

\* C22: in every merge the source treated as the main object is the source
\* named 'object' when the config has one, whatever its position, and the
\* first parameterless API source only when it has none; the merged source
\* takes the main-object branch exactly when it is that source.
C22_MainObjectIdentification ==
  [][\A c \in 1 .. MaxCycles :
       Merges(c) =>
         (config.sources[cycles[c].pos].sourceName = mainObjectSourceName)
           = (config.sources[cycles[c].pos].sourceName = MainObjectByName)
    ]_vars


\* The binding is main.key: a direct, non-indexed sub-path of the main
\* object.
DirectBinding(field, main) ==
  /\ Len(field.binding) = 3
  /\ field.binding[1] = main
  /\ field.binding[2] = "."
  /\ field.binding[3] \notin {"[", "]", "."}

\* C23: when the response of the main-object source has an array property
\* named like a List field's listSource and the field's binding is a direct
\* sub-path main.key, then after the merge the array is in the store at
\* main.key, and it is not under the listSource name as well when that name
\* differs from key; the array is never lost, whatever the listSource name
\* and the key are.
C23_ListPropertyMapping ==
  [][\A c \in {c2 \in 1 .. MaxCycles : cycles[c2] # Idle} :
       \A data \in MergeResponses(config.sources[cycles[c].pos]) :
         LET main == config.sources[cycles[c].pos].sourceName
         IN  /\ CallResolves(c, data)
             /\ main = mainObjectSourceName
             => \A i \in DOMAIN config.fields :
                  LET field == config.fields[i]
                      array == Get(data, field.listSource)
                  IN  /\ field.fieldType = "List"
                      /\ DirectBinding(field, main)
                      /\ IsArr(array)
                      => /\ resolve(field.binding, store') = array
                         /\ field.binding[3] # field.listSource =>
                              Get(Get(store', main), field.listSource) # array
    ]_vars


\* C24: the merge of the main-object source is a shallow merge.  After it,
\* every top-level field of the existing main-object data that the response
\* does not have keeps its value, every field of the response has the
\* response's value, and the data under every other name in the store is
\* unchanged.
C24_ShallowMerge ==
  [][\A c \in {c2 \in 1 .. MaxCycles : cycles[c2] # Idle} :
       \A data \in MergeResponses(config.sources[cycles[c].pos]) :
         LET main == config.sources[cycles[c].pos].sourceName
             old == Spread(Get(store, main))
             response == Spread(data)
             new == Get(store', main)
         IN  /\ CallResolves(c, data)
             /\ main = mainObjectSourceName
             => /\ \A k \in DOMAIN old \ DOMAIN response :
                     Get(new, k) = old[k]
                /\ \A k \in DOMAIN response : Get(new, k) = response[k]
                /\ \A n \in DOMAIN store.f \ {main} :
                     Get(store', n) = store.f[n]
    ]_vars


FilledTemplate(source, st) ==
  LET values == ResolvedParams(source, st)
      Declared(sym) ==
        \E k \in DOMAIN source.parameters :
          sym = "{" \o source.parameters[k].name \o "}"
      ValueFor(sym) ==
        values[CHOOSE k \in DOMAIN source.parameters :
                 sym = "{" \o source.parameters[k].name \o "}"]
  IN  Join([i \in DOMAIN source.endpoint |->
              IF Declared(source.endpoint[i])
              THEN ToStr(ValueFor(source.endpoint[i]))
              ELSE source.endpoint[i]])

\* C26: the URL passed to the provider is the endpoint template in which
\* each placeholder {p} is replaced by the resolved value of the declared
\* parameter named p, for every set of declared parameters and every
\* declaration order; {id} is filled only by the value of the parameter
\* named id.
C26_EndpointSubstitution ==
  [][\A c \in 1 .. MaxCycles :
       cycles'[c] # cycles[c] /\ cycles'[c] # Idle =>
         cycles'[c].url =
           FilledTemplate(config.sources[cycles'[c].pos], store)
    ]_vars


(***************************************************************************)
(* Properties of the bookkeeping of a fetch (Spec)                         *)
(***************************************************************************)
\* C27: starting a fetch of source s puts s in the in-flight set, sets its
\* loading flag and removes its error entry; when the call settles, by
\* success or by failure, s is out of the in-flight set and its loading
\* flag is false; on success the signature of the fetched URL and
\* parameters is s's last-successful signature and s's retry counter is 0.
C27_FetchBookkeeping ==
  [][/\ \A name \in AllSourceNames :
          IssuesCall(name) =>
            /\ name \in inFlight'
            /\ loadingStates'[name]
            /\ errors'[name] = NoError
     /\ \A c \in {c2 \in 1 .. MaxCycles : cycles[c2] # Idle} :
          LET name == config.sources[cycles[c].pos].sourceName
          IN  /\ (\E data \in Responses : CallResolves(c, data)) =>
                   /\ name \notin inFlight'
                   /\ ~loadingStates'[name]
                   /\ prevParams'[name] = cycles[c].sig
                   /\ retryCounts'[name] = 0
              /\ CallRejects(c, ApiErrorThrown) =>
                   /\ name \notin inFlight'
                   /\ ~loadingStates'[name]
    ]_vars

\* A call has succeeded and been recorded: its signature is cached, and
\* the source is neither in flight nor loading.
C27_Witness ==
  \E name \in AllSourceNames :
    /\ lastSettled[name] # NoSig
    /\ prevParams[name] = lastSettled[name]
    /\ name \notin inFlight
    /\ ~loadingStates[name]
    /\ retryCounts[name] = 0


(***************************************************************************)
(* SpecResolver: a BindingResolver on which strategies are registered and  *)
(* paths are parsed.  A strategy is its registration number and its class. *)
(***************************************************************************)
MaxStrategies == 3

StrategyKinds == {"Unified", "DotNotation", "NestedList"}

canHandle(strategy, path) ==
  CASE strategy.kind = "Unified" -> TRUE
    [] strategy.kind = "DotNotation" ->
         /\ IndexOfSym(path, "[") = -1
         /\ IndexOfSym(path, "]") = -1
    [] strategy.kind = "NestedList" -> Len(ArrayIndices(path)) > 1

DotNotationParse(path) ==
  LET firstDotIndex == IndexOfSym(path, ".") IN
  IF firstDotIndex = -1
  THEN [rootSource |-> Join(path), relativePath |-> <<>>,
        isArrayPath |-> FALSE, arrayIndices |-> <<>>]
  ELSE [rootSource |-> Join(SubSeq(path, 1, firstDotIndex)),
        relativePath |-> SubSeq(path, firstDotIndex + 2, Len(path)),
        isArrayPath |-> FALSE, arrayIndices |-> <<>>]

\* Without a bracket: path.split('.')[0] and path.replace(root + '.', '').
NestedListParse(path) ==
  LET firstDotIndex == IndexOfSym(path, ".") IN
  IF IndexOfSym(path, "[") # -1
  THEN [parse(path) EXCEPT !.isArrayPath = TRUE]
  ELSE [rootSource |-> IF firstDotIndex = -1 THEN Join(path)
                       ELSE Join(SubSeq(path, 1, firstDotIndex)),
        relativePath |-> IF firstDotIndex = -1 THEN path
                         ELSE SubSeq(path, firstDotIndex + 2, Len(path)),
        isArrayPath |-> TRUE,
        arrayIndices |-> <<>>]

strategyParse(strategy, path) ==
  CASE strategy.kind = "Unified" -> parse(path)
    [] strategy.kind = "DotNotation" -> DotNotationParse(path)
    [] strategy.kind = "NestedList" -> NestedListParse(path)

\* A findStrategy that walks this.strategies from its end.
findStrategyFromEnd(list, path) ==
  IF \E i \in DOMAIN list : canHandle(list[i], path)
  THEN list[CHOOSE i \in DOMAIN list :
              /\ canHandle(list[i], path)
              /\ \A j \in i + 1 .. Len(list) : ~canHandle(list[j], path)]
  ELSE list[Len(list)]

\* The first strategy of this.strategies that can handle the path, else
\* this.strategies[this.strategies.length - 1].
findStrategy(list, path) ==
  IF \E i \in DOMAIN list : canHandle(list[i], path)
  THEN list[CHOOSE i \in DOMAIN list :
              /\ canHandle(list[i], path)
              /\ \A j \in 1 .. i - 1 : ~canHandle(list[j], path)]
  ELSE list[Len(list)]

\* Paths that are not of the form root(.name | [N])*.
OddPaths ==
  {<<"[", "0", "]", ".", "a">>, <<".", "a">>, <<"r", "[", "a", "]">>,
   <<"r", "]">>, <<"r", "[">>, <<"r", ".", "a", "]", "[", "1", "]">>,
   <<"r", "[", "]", "[", "0", "]", "[", "1", "]">>, <<"r", ".">>}

\* r, r.a, r[0], r.a[1][0], ... and the empty path.
PlainPaths ==
  {<<>>, <<"r">>, <<"r", ".", "a">>, <<"r", ".", "a", ".", "a">>,
   <<"r", ".", "queryString", ".", "userId">>,
   <<"r", "[", "0", "]">>, <<"r", "[", "1", "]", ".", "a">>,
   <<"r", ".", "a", "[", "0", "]">>,
   <<"r", ".", "a", "[", "1", "]", "[", "0", "]">>,
   <<"r", "[", "0", "]", "[", "1", "]">>,
   <<"r", "[", "0", "]", ".", "a", "[", "1", "]">>,
   <<"r", ".", "a", "[", "0", "]", ".", "a", "[", "1", "]">>,
   <<"r", ".", "a", "[", "1", "]", ".", "a">>}

ParsePaths == PlainPaths \cup OddPaths

\* registerStrategy(new <kind>()): this.strategies.unshift(strategy)
RegisterStrategy(kind) ==
  /\ Len(strategies) < MaxStrategies
  /\ strategies' = <<[id |-> Len(strategies), kind |-> kind]>> \o strategies
  /\ UNCHANGED <<found, vField, vStore, vVisible, fvars, bvars, rvars, dvars,
                 avars>>

\* BindingResolver.parse(path)
ResolverParse(path) ==
  /\ found' = [path |-> path,
               strategy |-> findStrategy(strategies, path),
               parsed |-> strategyParse(findStrategy(strategies, path), path)]
  /\ UNCHANGED <<strategies, vField, vStore, vVisible, fvars, bvars, rvars,
                 dvars, avars>>

InitResolver ==
  /\ FetchIdle /\ BindIdle /\ RegistryIdle /\ FormIdle /\ PureIdle /\ AsyncIdle

NextResolver ==
  \/ \E kind \in StrategyKinds : RegisterStrategy(kind)
  \/ \E path \in ParsePaths : ResolverParse(path)

SpecResolver == InitResolver /\ [][NextResolver]_vars

\* The places of a symbol in a path, and the text around a place.
PlacesOf(path, sym) == {i \in 1 .. Len(path) : path[i] = sym}

FirstPlace(places) == CHOOSE i \in places : \A j \in places : i <= j

TextBefore(path, i) == Join(SubSeq(path, 1, i - 1))

\* The places where an occurrence of [N] starts.
IndexPlaces(path) ==
  {i \in 1 .. Len(path) - 2 :
     path[i] = "[" /\ IsIndexKey(path[i + 1]) /\ path[i + 2] = "]"}

RECURSIVE LeftToRight(_, _)
LeftToRight(path, places) ==
  IF places = {} THEN <<>>
  ELSE <<KeyIndex(path[FirstPlace(places) + 1])>> \o
       LeftToRight(path, places \ {FirstPlace(places)})

\* C28: parse(path) gives (a) with a '[' and a '.' before the first '[':
\* rootSource the text before the first '.', relativePath everything after
\* that '.'; (b) with a '[' and no '.' before it: rootSource the text before
\* the first '[', relativePath from that '[' on; (c) with no '[': rootSource
\* the text before the first '.' and relativePath the rest, or the whole
\* path and "" when there is no '.'.  arrayIndices lists the numbers of all
\* [N] occurrences left to right, and isArrayPath is true exactly when that
\* list is not empty.
C28_Parse ==
  found # NotFound =>
    LET path == found.path
        brackets == PlacesOf(path, "[")
        dots == PlacesOf(path, ".")
        parsed == found.parsed
    IN  /\ (brackets # {} /\ \E d \in dots : d < FirstPlace(brackets)) =>
             /\ parsed.rootSource = TextBefore(path, FirstPlace(dots))
             /\ parsed.relativePath =
                  SubSeq(path, FirstPlace(dots) + 1, Len(path))
        /\ (brackets # {} /\ ~\E d \in dots : d < FirstPlace(brackets)) =>
             /\ parsed.rootSource = TextBefore(path, FirstPlace(brackets))
             /\ parsed.relativePath =
                  SubSeq(path, FirstPlace(brackets), Len(path))
        /\ (brackets = {} /\ dots # {}) =>
             /\ parsed.rootSource = TextBefore(path, FirstPlace(dots))
             /\ parsed.relativePath =
                  SubSeq(path, FirstPlace(dots) + 1, Len(path))
        /\ (brackets = {} /\ dots = {}) =>
             /\ parsed.rootSource = Join(path)
             /\ parsed.relativePath = <<>>
        /\ parsed.arrayIndices = LeftToRight(path, IndexPlaces(path))
        /\ parsed.isArrayPath <=> IndexPlaces(path) # {}

\* A path with a dot before its first bracket and two indices was parsed.
C28_Witness ==
  /\ found # NotFound
  /\ found.strategy.kind = "Unified"
  /\ found.parsed.rootSource = "r"
  /\ found.parsed.relativePath = <<"a", "[", "1", "]", "[", "0", "]">>
  /\ found.parsed.arrayIndices = <<1, 0>>


\* The strategies of a list that can handle a path, and the one of a set
\* of strategies that was registered last.
Able(list, path) ==
  {list[i] : i \in {j \in DOMAIN list : canHandle(list[j], path)}}

LastRegistered(group) ==
  CHOOSE x \in group : \A y \in group : y.id <= x.id

SourceNames == {config.sources[i].sourceName : i \in DOMAIN config.sources}

\* C30: initialization gives every configured source a placeholder ({} for
\* the source named 'object', [] for every other source) and never replaces
\* a value already present under a key; afterwards every configured source
\* name is a key of the Store, through fetches and field edits.
C30_StoreSeeding ==
  [][/\ (Mount \/ ConfigChange) =>
          /\ \A k \in DOMAIN store.f :
               k \in DOMAIN store'.f /\ store'.f[k] = store.f[k]
          /\ \A n \in SourceNames \ DOMAIN store.f :
               store'.f[n] = IF n = "object" THEN EmptyObj ELSE Arr(<<>>)
     /\ mounted' => SourceNames \subseteq DOMAIN store'.f
    ]_vars

\* The main object has been loaded or edited while the list still holds its
\* placeholder, and no call is outstanding.
C30_Witness ==
  /\ mounted
  /\ store.f["experienceList"] = Arr(<<>>)
  /\ store.f["object"] # EmptyObj
  /\ cycles = [c \in 1 .. MaxCycles |-> Idle]


(***************************************************************************)
(* Properties of FieldRegistry.registerMany (SpecRegistry)                 *)
(***************************************************************************)
\* C36: a registerMany call that throws because one of its entries is
\* already registered (override = false) leaves the registry exactly as it
\* was before the call: no other entry of the batch has been registered.
C36_RegisterManyAllOrNothing ==
  [][\A entries \in Batches :
       (RegisterMany(entries, FALSE) /\ threw') => fields' = fields
    ]_vars


(***************************************************************************)
(* Properties of the two ways of reading a path (SpecBind)                 *)
(***************************************************************************)
\* C32: for every binding path p and Store s, the value the form reads for
\* p, getNestedValue(s, p) on the whole Store, equals
\* BindingResolver.resolve(p, s).
C32_OneDataPath ==
  bPhase = "resolved" => bRead = getNestedValue(bStore, bPath)

\* The same, for the paths without a segment named queryString.
C32_OneDataPathPlain ==
  (bPhase = "resolved" /\ \A i \in DOMAIN bPath : bPath[i] # "queryString")
    => bRead = getNestedValue(bStore, bPath)


(***************************************************************************)
(* Properties of the in-flight set and the loading flags (Spec)            *)
(***************************************************************************)
\* A provider call for the source is outstanding: some run of
\* checkAndFetchSources is suspended at its `await api.call(url)`.
CallOutstanding(name) ==
  \E c \in 1 .. MaxCycles :
    /\ cycles[c] # Idle
    /\ config.sources[cycles[c].pos].sourceName = name

\* C33: in every state between event handlers a source is in the in-flight
\* set exactly when a provider call for it is outstanding, and its loading
\* flag is true exactly when a provider call for it is outstanding.
C33_ExactBookkeeping ==
  \A name \in {config.sources[i].sourceName : i \in DOMAIN config.sources} :
    /\ name \in inFlight <=> CallOutstanding(name)
    /\ loadingStates[name] <=> CallOutstanding(name)


(***************************************************************************)
(* Properties of what set leaves alone (SpecBind)                          *)
(***************************************************************************)
IsPrefix(p, q) == Len(p) <= Len(q) /\ SubSeq(q, 1, Len(p)) = p

\* C35: set(p, v, s) leaves the data under every root source other than
\* p's root identical, and for every path q that is neither a prefix nor an
\* extension of p and that resolved to a defined value in s,
\* resolve(q, set(p, v, s)) equals resolve(q, s).
C35_SetFrame ==
  (bPhase = "set" /\ ~bOut.threw) =>
    /\ \A k \in DOMAIN bStore.f :
         k # parse(bPath).rootSource =>
           /\ k \in DOMAIN bOut.store.f
           /\ bOut.store.f[k] = bStore.f[k]
    /\ \A q \in BindPaths :
         (/\ ~IsPrefix(q, bPath)
          /\ ~IsPrefix(bPath, q)
          /\ resolve(q, bStore) # Undef)
           => resolve(q, bOut.store) = resolve(q, bStore)


(***************************************************************************)
(* SpecLatest: the hook over the dependent source alone, with maxRetries   *)
(* from 0 on, left to itself while the user enters a country, replaces it  *)
(* by another one, and edits a field no source depends on.  Every provider *)
(* call settles and every pending timeout fires.                           *)
(***************************************************************************)
CountryPath == <<"object", ".", "country">>

\* The user enters US into the empty field, or replaces US by CA.
EnterCountry(value) ==
  /\ resolve(CountryPath, store) =
       (IF value = Str("US") THEN Undef ELSE Str("US"))
  /\ SetField(CountryPath, value)

InitLatest ==
  /\ \E m \in 0 .. MaxRetries :
       StartWith([sources |-> <<StateList>>, fields |-> <<>>],
                 HookOptions(m, TRUE))
  /\ BindIdle
  /\ RegistryIdle
  /\ FormIdle
  /\ PureIdle /\ AsyncIdle

Settles(c) ==
  \/ \E data \in Responses : CallResolves(c, data)
  \/ CallRejects(c, ApiErrorThrown)

NextLatest ==
  \/ Mount
  \/ \E value \in {Str("US"), Str("CA")} : EnterCountry(value)
  \/ SetField(<<"object", ".", "field">>, Str("x"))
  \/ DebounceFire
  \/ RetryTimerFire("stateList")
  \/ \E c \in 1 .. MaxCycles : Settles(c)

\* checkAndFetchSources() can run against st: it issues no call, or a run
\* of the model is free to carry the call.
CanStartCycle(st, pp, inf) ==
  \/ NextFetch(1, ResolvedFrom(1, st), pp, inf) = 0
  \/ \E c \in 1 .. MaxCycles : FreeSlot(c)

\* The enabling conditions of the timeouts and of the settling of a call.
DebounceEnabled ==
  /\ debounce \/ strayTimers > 0
  /\ CanStartCycle(store, prevParams, inFlight)

RetryTimerEnabled(name) ==
  /\ retryTimers[name] > 0
  /\ CanStartCycle(store, [prevParams EXCEPT ![name] = NoSig],
                   inFlight \ {name})

\* The timer's part of DebounceFire: a pending timeout of Effect 3 is
\* taken off, the latest one or an earlier one.
TimeoutTaken ==
  /\ DebounceEnabled
  /\ \E latest \in BOOLEAN :
       /\ IF latest THEN debounce ELSE strayTimers > 0
       /\ debounce' = (debounce /\ ~latest)
       /\ strayTimers' = IF latest THEN strayTimers ELSE strayTimers - 1

\* The timer's part of RetryTimerFire.
RetryTaken(name) ==
  /\ RetryTimerEnabled(name)
  /\ retryTimers' = [retryTimers EXCEPT ![name] = @ - 1]

\* The cycle's part of Settles: with one source, the run that waited at the
\* call ends.
CallTaken(c) ==
  /\ cycles[c] # Idle
  /\ cycles' = [cycles EXCEPT ![c] = Idle]

\* Weak fairness of each timeout and of the settling of each call: a
\* timeout does not stay pending for ever and a provider call does not
\* stay outstanding for ever.  Each condition is stated on the part of the
\* action that takes the timeout or the call off, whose enabling condition
\* is the one written out above.
FairLatest ==
  /\ WF_<<debounce, strayTimers>>(TimeoutTaken)
  /\ WF_retryTimers(RetryTaken("stateList"))
  /\ \A c \in 1 .. MaxCycles : WF_cycles(CallTaken(c))

SpecLatest == InitLatest /\ [][NextLatest]_vars /\ FairLatest

\* A provider call with the URL resolved from the Store's country is
\* outstanding.
CallOutstandingFor(value) ==
  /\ resolve(CountryPath, store) = value
  /\ \E c \in 1 .. MaxCycles :
       /\ cycles[c] # Idle
       /\ cycles[c].url = Resolved(config.sources[cycles[c].pos], store).url

\* C34: if the parameter of the dependent source changes to a new non-empty
\* value v, also while a fetch for an older value is in flight, and no later
\* change follows, then, every provider call settling and for every
\* maxRetries >= 0, a provider call with the URL resolved from v is
\* eventually issued.
C34_LatestValueFetched ==
  \A value \in {Str("US"), Str("CA")} :
    <>[](resolve(CountryPath, store) = value) => <>CallOutstandingFor(value)

(***************************************************************************)
(* DynamicForm's asynchronous handlers: handleFieldChange, validate and    *)
(* handleSubmit suspended at their awaits.  A handler that reaches no      *)
(* customValidator awaits only promises that are already resolved, so it   *)
(* completes before the next event; a customValidator and the onSubmit     *)
(* callback settle in a later event.  A suspended handler goes on with the *)
(* store and the formErrors of the render it was created in.               *)
(***************************************************************************)
MaxSubmits == 2

MaxValidations == 2

\* validateOn of a field (types.ts line 78): absent, or a list of triggers.
NoValidateOn == [given |-> FALSE, triggers |-> {}]

ValidateOnList(triggers) == [given |-> TRUE, triggers |-> triggers]

\* A required text field bound to object.country, validated on change and
\* on submit, with an asynchronous customValidator.
CountryInput ==
  [fieldType |-> "Text", binding |-> <<"object", ".", "country">>,
   listSource |-> "", visible |-> "undefined", predicate |-> TRUE,
   dependsOn |-> NoDependsOn, required |-> TRUE,
   validateOn |-> ValidateOnList({"onChange", "onSubmit"}),
   customValidator |-> "async"]

\* A required text field bound to object.state, shown when the country is
\* CA, with validateOn absent.
StateInput ==
  [fieldType |-> "Text", binding |-> <<"object", ".", "state">>,
   listSource |-> "", visible |-> "undefined", predicate |-> TRUE,
   dependsOn |-> [field |-> <<"object", ".", "country">>,
                  value |-> Str("CA"), values |-> NoValues,
                  condition |-> "undefined"],
   required |-> TRUE, validateOn |-> NoValidateOn,
   customValidator |-> "none"]

SubmitConfig ==
  [sources |-> <<ObjectSource>>, fields |-> <<CountryInput, StateInput>>]

\* field.validateOn || ['onSubmit'] (lines 161, 368 and 405).
ValidateOnOf(field) ==
  IF field.validateOn.given THEN field.validateOn.triggers ELSE {"onSubmit"}

\* value === undefined || value === null || value === '' (lines 167, 172).
IsEmptyValue(value) == value \in {Undef, Null, Str("")}

\* The customValidator of the configuration: it returns a message for US.
customValidator(value) == IF value = Str("US") THEN "custom" ELSE "undefined"

\* validateField (lines 155-342) for a text field without length, pattern
\* or range limits: the kind of message returned, "undefined" for none.
validateField(field, value, trigger) ==
  IF trigger \notin ValidateOnOf(field) THEN "undefined"
  ELSE IF field.required /\ IsEmptyValue(value) THEN "required"
  ELSE IF IsEmptyValue(value) THEN "undefined"
  ELSE IF field.customValidator # "none" THEN customValidator(value)
  ELSE "undefined"

\* validateField reaches `await field.customValidator(...)` of line 330.
AwaitsValidator(field, value, trigger) ==
  /\ trigger \in ValidateOnOf(field)
  /\ ~IsEmptyValue(value)
  /\ field.customValidator # "none"

\* The first field bound to the path (line 350), 0 when there is none.
FindField(path) ==
  IF \E i \in DOMAIN config.fields : config.fields[i].binding = path
  THEN CHOOSE i \in DOMAIN config.fields :
         /\ config.fields[i].binding = path
         /\ \A j \in 1 .. (i - 1) : config.fields[j].binding # path
  ELSE 0

RemoveAt(seq, i) ==
  [j \in 1 .. (Len(seq) - 1) |-> IF j < i THEN seq[j] ELSE seq[j + 1]]

\* setFormErrors(prev => ...) of lines 374-382.
ApplyError(prev, path, error) ==
  IF error # "undefined" THEN prev \cup {path} ELSE prev \ {path}

\* The form, its fields and its submit button are rendered: not the
\* loading container of lines 558-565.
FormRendered ==
  /\ mounted
  /\ dynamicForm
  /\ ~(loadingStates["object"] /\ KeysLength(Get(store, "object")) = 0)

\* handleFieldChange (lines 344-387) up to the point where it is suspended
\* or done.
HandleFieldChange(path, value, trigger) ==
  /\ FormRendered
  /\ LET written == set(path, value, store)
     IN  /\ ~written.threw
         /\ store' = written.store
  /\ Effect3(store', prevParams, inFlight)
  /\ SaveInitial(store')
  /\ LET i == FindField(path)
         cleared == formErrors \ {path}
     IN  IF i = 0
         THEN UNCHANGED <<formErrors, validatingFields, validations>>
         ELSE IF trigger \notin ValidateOnOf(config.fields[i])
         THEN /\ formErrors' = cleared
              /\ UNCHANGED <<validatingFields, validations>>
         ELSE IF AwaitsValidator(config.fields[i], value, trigger)
         THEN /\ Len(validations) < MaxValidations
              /\ formErrors' = cleared
              /\ validatingFields' = validatingFields \cup {path}
              /\ validations' =
                   Append(validations,
                          [field |-> i, value |-> value, trigger |-> trigger])
         ELSE /\ formErrors' =
                   ApplyError(cleared, path,
                              validateField(config.fields[i], value, trigger))
              /\ validatingFields' = validatingFields \ {path}
              /\ UNCHANGED validations
  /\ onErrorCalls' = <<>>
  /\ onSubmitCalls' = <<>>
  /\ onValidationErrorCalls' = <<>>
  /\ UNCHANGED <<config, options, mounted, loadingStates, errors, prevParams,
                 retryCounts, inFlight, cycles, retryTimers, retryDelays,
                 streak, lastOk, lastSettled, okSigs, dynamicForm,
                 submitStatus, successTimers, isSubmitting, submits, bvars,
                 rvars, pvars>>

\* The customValidator awaited by the i-th suspended handleFieldChange
\* settles: lines 330-339, then 374-386.
ValidationSettles(i) ==
  /\ i \in DOMAIN validations
  /\ LET v == validations[i]
         field == config.fields[v.field]
     IN  /\ formErrors' =
               ApplyError(formErrors, field.binding,
                          validateField(field, v.value, v.trigger))
         /\ validatingFields' = validatingFields \ {field.binding}
  /\ validations' = RemoveAt(validations, i)
  /\ onErrorCalls' = <<>>
  /\ onSubmitCalls' = <<>>
  /\ onValidationErrorCalls' = <<>>
  /\ UNCHANGED <<config, options, mounted, store, loadingStates, errors,
                 prevParams, retryCounts, inFlight, cycles, retryTimers,
                 debounce, strayTimers, retryDelays, streak, lastOk,
                 lastSettled, okSigs, dynamicForm, initialStoreRef,
                 isInitializedRef, submitStatus, successTimers, isSubmitting,
                 submits, bvars, rvars, pvars>>

\* validate without the isFieldVisible check of line 399.
ValidatedFieldsHidden(st) ==
  {i \in DOMAIN config.fields : "onSubmit" \in ValidateOnOf(config.fields[i])}

\* The fields validate (lines 393-420) validates in the store of the render.
ValidatedFields(st) ==
  {i \in DOMAIN config.fields :
     /\ isFieldVisible(config.fields[i], st)
     /\ "onSubmit" \in ValidateOnOf(config.fields[i])}

\* newErrors of validate: the bindings that got a message.
newErrors(st) ==
  {config.fields[i].binding : i \in
     {j \in ValidatedFields(st) :
        validateField(config.fields[j],
                      getNestedValue(st, config.fields[j].binding),
                      "onSubmit") # "undefined"}}

\* Promise.all of line 415 waits for a customValidator.
ValidateAwaits(st) ==
  \E i \in ValidatedFields(st) :
    AwaitsValidator(config.fields[i],
                    getNestedValue(st, config.fields[i].binding), "onSubmit")

\* handleSubmit from the return of validate (line 425) to its return at
\* line 432 or to `await onSubmit(store.object)` at line 442.  sub holds the
\* store and the formErrors of the render the handler was created in.
AfterValidate(sub, others) ==
  /\ formErrors' = newErrors(sub.store)
  /\ IF newErrors(sub.store) # {}
     THEN /\ submitStatus' = "error"
          /\ onValidationErrorCalls' = <<sub.formErrors>>
          /\ onSubmitCalls' = <<>>
          /\ submits' = others
          /\ UNCHANGED isSubmitting
     ELSE /\ isSubmitting' = TRUE
          /\ submitStatus' = "null"
          /\ onValidationErrorCalls' = <<>>
          /\ onSubmitCalls' = <<Get(sub.store, "object")>>
          /\ submits' = Append(others, [sub EXCEPT !.phase = "onSubmit"])

\* The submit button (lines 735-739) is pressed: handleSubmit (lines
\* 422-470) runs until it is suspended or returns.  The button is disabled
\* while isSubmitting.
SubmitEvent ==
  /\ FormRendered
  /\ ~isSubmitting
  /\ Len(submits) < MaxSubmits
  /\ LET sub == [phase |-> "validate", store |-> store,
                 formErrors |-> formErrors]
     IN  IF ValidateAwaits(store)
         THEN /\ submits' = Append(submits, sub)
              /\ onSubmitCalls' = <<>>
              /\ onValidationErrorCalls' = <<>>
              /\ UNCHANGED <<formErrors, submitStatus, isSubmitting>>
         ELSE AfterValidate(sub, submits)
  /\ onErrorCalls' = <<>>
  /\ UNCHANGED <<config, options, mounted, store, loadingStates, errors,
                 prevParams, retryCounts, inFlight, cycles, retryTimers,
                 debounce, strayTimers, retryDelays, streak, lastOk,
                 lastSettled, okSigs, dynamicForm, initialStoreRef,
                 isInitializedRef, successTimers, validatingFields,
                 validations, bvars, rvars, pvars>>

\* The customValidators awaited by the i-th suspended handleSubmit have
\* settled.
SubmitValidated(i) ==
  /\ i \in DOMAIN submits
  /\ submits[i].phase = "validate"
  /\ AfterValidate(submits[i], RemoveAt(submits, i))
  /\ onErrorCalls' = <<>>
  /\ UNCHANGED <<config, options, mounted, store, loadingStates, errors,
                 prevParams, retryCounts, inFlight, cycles, retryTimers,
                 debounce, strayTimers, retryDelays, streak, lastOk,
                 lastSettled, okSigs, dynamicForm, initialStoreRef,
                 isInitializedRef, successTimers, validatingFields,
                 validations, bvars, rvars, pvars>>

\* The onSubmit callback awaited by the i-th suspended handleSubmit
\* settles: lines 443-444 when it resolves, 449-463 when it throws, and the
\* finally of lines 464-466.
OnSubmitSettles(i, thrown) ==
  /\ i \in DOMAIN submits
  /\ submits[i].phase = "onSubmit"
  /\ IF thrown
     THEN /\ submitStatus' = "error"
          /\ onErrorCalls' =
               OnErrorInvocations([sourceName |-> "form-submission",
                                   endpoint |-> "",
                                   message |-> ErrorMessage(ApiErrorThrown),
                                   retryCount |-> 0])
          /\ UNCHANGED successTimers
     ELSE /\ successTimers < MaxTimers
          /\ submitStatus' = "success"
          /\ successTimers' = successTimers + 1
          /\ onErrorCalls' = <<>>
  /\ isSubmitting' = FALSE
  /\ submits' = RemoveAt(submits, i)
  /\ onSubmitCalls' = <<>>
  /\ onValidationErrorCalls' = <<>>
  /\ UNCHANGED <<config, options, mounted, store, loadingStates, errors,
                 prevParams, retryCounts, inFlight, cycles, retryTimers,
                 debounce, strayTimers, retryDelays, streak, lastOk,
                 lastSettled, okSigs, dynamicForm, initialStoreRef,
                 isInitializedRef, formErrors, validatingFields, validations,
                 bvars, rvars, pvars>>

(***************************************************************************)
(* SpecSubmit: a DynamicForm with a main object and two required fields.   *)
(* The user edits both fields and presses the submit button; validators,   *)
(* provider calls and the onSubmit callback settle in any order.           *)
(***************************************************************************)
CountryEdits == {Str("US"), Str("CA")}

InitSubmit ==
  /\ StartWith(SubmitConfig, HookOptions(0, TRUE))
  /\ BindIdle
  /\ RegistryIdle
  /\ FormState(FALSE)
  /\ PureIdle /\ AsyncIdle

NextSubmit ==
  \/ Mount
  \/ \E value \in CountryEdits :
       HandleFieldChange(CountryInput.binding, value, "onChange")
  \/ HandleFieldChange(StateInput.binding, Str("x"), "onChange")
  \/ \E c \in 1 .. MaxCycles :
       /\ cycles[c] # Idle
       /\ CallResolves(c, FormResponse(config.sources[cycles[c].pos]))
  \/ \E i \in 1 .. MaxValidations : ValidationSettles(i)
  \/ SubmitEvent
  \/ \E i \in 1 .. MaxSubmits : SubmitValidated(i)
  \/ \E i \in 1 .. MaxSubmits : \E thrown \in BOOLEAN :
       OnSubmitSettles(i, thrown)
  \/ SuccessTimeout

SpecSubmit == InitSubmit /\ [][NextSubmit]_vars

(***************************************************************************)
(* SpecGate: the same form with the country validated on submit only, used *)
(* by a user who edits the fields at any time but presses the submit       *)
(* button again only when the previous handleSubmit has returned.          *)
(***************************************************************************)
GateConfig ==
  [sources |-> <<ObjectSource>>,
   fields |-> <<[CountryInput EXCEPT
                   !.validateOn = ValidateOnList({"onSubmit"})],
                StateInput>>]

InitGate ==
  /\ StartWith(GateConfig, HookOptions(0, TRUE))
  /\ BindIdle
  /\ RegistryIdle
  /\ FormState(FALSE)
  /\ PureIdle /\ AsyncIdle

NextGate ==
  \/ Mount
  \/ \E value \in CountryEdits \cup {Str("")} :
       HandleFieldChange(CountryInput.binding, value, "onChange")
  \/ \E value \in {Str("x"), Str("")} :
       HandleFieldChange(StateInput.binding, value, "onChange")
  \/ \E c \in 1 .. MaxCycles :
       /\ cycles[c] # Idle
       /\ CallResolves(c, FormResponse(config.sources[cycles[c].pos]))
  \/ submits = <<>> /\ SubmitEvent
  \/ \E i \in 1 .. MaxSubmits : SubmitValidated(i)
  \/ \E i \in 1 .. MaxSubmits : \E thrown \in BOOLEAN :
       OnSubmitSettles(i, thrown)
  \/ SuccessTimeout

SpecGate == InitGate /\ [][NextGate]_vars

(***************************************************************************)
(* Claims about validation and submission                                  *)
(***************************************************************************)
\* The field is shown for the store st, its values read through
\* BindingResolver.resolve.
ShownFor(field, st) ==
  /\ field.visible # "false"
  /\ field.visible = "function" => field.predicate
  /\ field.dependsOn # NoDependsOn =>
       DependsOnHoldsResolved(field.dependsOn, st)

\* The bindings of the shown fields validated on submit whose value in st
\* gets a message.
FailingFields(st) ==
  {config.fields[i].binding : i \in
     {j \in DOMAIN config.fields :
        /\ ShownFor(config.fields[j], st)
        /\ "onSubmit" \in ValidateOnOf(config.fields[j])
        /\ validateField(config.fields[j],
                         resolve(config.fields[j].binding, st),
                         "onSubmit") # "undefined"}}

\* The step in which the validation of a submit is done and handleSubmit
\* goes on: the submit event itself (i = 0) when no validator is awaited,
\* else the continuation of the i-th suspended handleSubmit.
ValidationDone(i) ==
  IF i = 0 THEN SubmitEvent /\ ~ValidateAwaits(store)
  ELSE SubmitValidated(i)

\* The store of the submit event whose validation is done in that step.
SubmittedStore(i) == IF i = 0 THEN store ELSE submits[i].store

\* C38: when a submit fails validation, onValidationError is invoked
\* exactly once, with the errors found by that submit's validation: a
\* non-empty map that holds every failing shown field.
C38_ValidationErrorReport ==
  [][\A i \in 0 .. MaxSubmits :
       (/\ i \in {0} \cup DOMAIN submits
        /\ ValidationDone(i)
        /\ FailingFields(SubmittedStore(i)) # {})
       => onValidationErrorCalls' = <<FailingFields(SubmittedStore(i))>>]_vars

\* The suspended handleSubmit calls that wait for the onSubmit callback.
OnSubmitOutstanding ==
  {i \in DOMAIN submits : submits[i].phase = "onSubmit"}

\* C39: at most one onSubmit invocation is outstanding at any time, also
\* when a submit event arrives while an earlier submit is validating or
\* awaiting onSubmit, and isSubmitting is true exactly while an onSubmit
\* invocation is outstanding.
C39_OneSubmission ==
  /\ Cardinality(OnSubmitOutstanding) <= 1
  /\ isSubmitting <=> OnSubmitOutstanding # {}

\* A validation started by a change of the field bound to path is running.
ValidationRunning(list, path) ==
  \E i \in DOMAIN list : config.fields[list[i].field].binding = path

\* When the last running validation of a field settles, the error shown
\* for the field is the result of validating the value entered last.
LatestResultShown ==
  [][\A i \in 1 .. MaxValidations :
       (/\ ValidationSettles(i)
        /\ ~ValidationRunning(
              validations', config.fields[validations[i].field].binding))
       => LET field == config.fields[validations[i].field]
          IN  field.binding \in formErrors' <=>
                validateField(field, resolve(field.binding, store'),
                              validations[i].trigger) # "undefined"]_vars

\* A field is in the validating set exactly while one of its validations
\* is running.
ValidatingWhileRunning ==
  \A i \in DOMAIN config.fields :
    config.fields[i].binding \in validatingFields <=>
      ValidationRunning(validations, config.fields[i].binding)

\* C37: validation results are not applied out of order.  When a field
\* with an asynchronous customValidator is changed several times, then once
\* all started validations have settled, in whatever order, the error shown
\* for it is the result of validating the value entered last; and the field
\* is in the validating set exactly while one of its validations runs.
C37_ValidationOrder == LatestResultShown /\ []ValidatingWhileRunning

\* C31: submit is gated by validation.  When the validation of a submit
\* is done, the errors are exactly those of the shown fields whose
\* validateOn (by default onSubmit alone) contains onSubmit, each validated
\* against its value in the store of the submit event, hidden fields
\* left out; with no error onSubmit is invoked once with the main object of
\* that store, and with an error onSubmit is not invoked and the submit
\* status becomes error.  No other step invokes onSubmit.
C31_SubmitGated ==
  [][/\ \A i \in 0 .. MaxSubmits :
          (i \in {0} \cup DOMAIN submits /\ ValidationDone(i)) =>
            LET failing == FailingFields(SubmittedStore(i))
            IN  /\ formErrors' = failing
                /\ IF failing = {}
                   THEN onSubmitCalls' =
                          <<resolve(<<"object">>, SubmittedStore(i))>>
                   ELSE /\ onSubmitCalls' = <<>>
                        /\ submitStatus' = "error"
     /\ (\A i \in {0} \cup DOMAIN submits : ~ValidationDone(i)) =>
          onSubmitCalls' \in {<<>>, onSubmitCalls}]_vars

\* A submit went through to onSubmit although the state field, required
\* and empty, was hidden in the store of the submit event.
C31_Witness ==
  \E i \in DOMAIN submits :
    /\ submits[i].phase = "onSubmit"
    /\ onSubmitCalls = <<Get(submits[i].store, "object")>>
    /\ ~ShownFor(StateInput, submits[i].store)
    /\ IsEmptyValue(resolve(StateInput.binding, submits[i].store))

====
